---- MODULE Spec2Model ----
(***************************************************************************)
(* State-machine model of cli/file_fetcher.rs: the SourceFileFetcher with  *)
(* its in-process SourceFileCache, the on-disk HttpCache it reads and      *)
(* writes, and the remote origin reached through http_util::fetch_once.    *)
(*                                                                         *)
(* A request is one call of an entry point.  The futures of the fetcher    *)
(* are boxed_local: a request runs without interleaving from one await of  *)
(* fetch_once to the next, so one action models one such run.              *)
(***************************************************************************)
EXTENDS Integers, Sequences, FiniteSets, TLC

VARIABLES
  source_file_cache,  \* SourceFileCache: specifier -> SourceFile or NoFile
  http_cache,         \* HttpCache on disk: url -> entry, Missing or Corrupt
  origin,             \* what the remote servers answer for each url
  config,             \* fields of SourceFileFetcher fixed by new()
  req,                \* the requests: position and locals of each call
  returned,           \* specifier -> what fetch_source_file first returned
  calls,              \* fetching calls the behaviour may still start
  saves,              \* save_source_file_in_cache calls it may still make
  restripped,         \* specifier -> the shebang step applied to its record
  mutex               \* holder of the lock of SourceFileCache, or Unlocked

vars ==
  <<source_file_cache, http_cache, origin, config, req, returned, calls, saves,
    restripped, mutex>>

----------------------------------------------------------------------------
(* Bounds of the model *)

\* fetching calls in one behaviour that starts from any disk cache
MaxCalls == 1
\* fetching calls in one behaviour that starts from an empty disk cache
MaxSeqCalls == 2
\* save_source_file_in_cache calls in one behaviour
MaxSaves == 1
\* largest redirect_limit handed to the internal entry points directly
MaxLimit == 2

\* the redirect limit of the orchestrator and of the NotModified re-read
RedirectLimit == 10

----------------------------------------------------------------------------
(* Urls.  A Url is its components; "" stands for an absent query/fragment. *)

Url(scheme, host, path, query, fragment) ==
  [scheme |-> scheme, host |-> host, path |-> path,
   query |-> query, fragment |-> fragment]

UA == Url("http", "a", <<"m.ts">>, "", "")
UB == Url("http", "b", <<"R", "m.ts">>, "", "")
UC == Url("http", "b", <<"m.ts">>, "", "")
UF == Url("file", "", <<"m.ts">>, "", "")
UX == Url("ftp", "a", <<"m.ts">>, "", "")
UY == Url("ftp", "a", <<"--cached-only">>, "", "")

RemoteUrls == {UA, UB, UC}
Specifiers == {UA, UB, UC, UF, UX, UY}

\* urls whose text holds "--cached-only", on a host and at a path nobody
\* is permitted
UZ == Url("http", "z", <<"--cached-only">>, "", "")
UFZ == Url("file", "", <<"--cached-only">>, "", "")

\* a file url naming a host, as file://server/m.ts
UFH == Url("file", "server", <<"m.ts">>, "", "")

\* the keys of the memory cache
AllSpecifiers == Specifiers \cup {UZ, UFZ, UFH}

SUPPORTED_URL_SCHEMES == {"http", "https", "file"}

\* Url::set_path: only the path changes, query and fragment stay
set_path(url, path) == [url EXCEPT !.path = path]

\* Url::set_fragment(None), Url::set_query(None)
clear_fragment(url) == [url EXCEPT !.fragment = ""]
clear_query(url) == [url EXCEPT !.query = ""]

----------------------------------------------------------------------------
(* Header values.  A location is kept as the origin wrote it: an absolute  *)
(* url, a path, or text that is neither.                                   *)

LocAbs(u) == [kind |-> "abs", url |-> u]
LocPath(p) == [kind |-> "path", path |-> p]
LocBad == [kind |-> "bad"]

\* Url::parse of a location header
UrlParse(loc) ==
  CASE loc.kind = "abs" -> [ok |-> TRUE, url |-> loc.url]
    [] loc.kind = "path" -> [ok |-> FALSE, err |-> "RelativeUrlWithoutBase"]
    [] OTHER -> [ok |-> FALSE, err |-> "InvalidUrl"]

\* A content-type header is the sequence of its ';'-separated segments.
CtTs == <<"application/typescript">>
CtJs == <<"text/javascript">>
CtTsUtf16 == <<"application/typescript", "charset=utf-16le">>

\* Bytes are sequences of characters.
BodyPlain == <<"x">>
BodyChanged == <<"y">>
BodyShebang == <<"#", "!", "x", "\n", "x">>

----------------------------------------------------------------------------
(* Text documents *)

\* text_encoding::detect_charset: a byte-order mark decides, else utf-8
detect_charset(bytes) ==
  IF Len(bytes) >= 1 /\ bytes[1] = "BOM16" THEN "utf-16le" ELSE "utf-8"

\* TextDocument::new
TextDocument(bytes, charset) ==
  [bytes |-> bytes,
   charset |-> IF charset = "" THEN detect_charset(bytes) ELSE charset]

\* text_encoding::convert_to_utf8: fails on bytes the codec cannot represent.
\* A utf-16le unit is two bytes: a character followed by "0" is that
\* character, any other pair is some character beyond ASCII, written "?".
RECURSIVE Utf16Units(_)
Utf16Units(bytes) ==
  IF Len(bytes) < 2 THEN <<>>
  ELSE <<IF bytes[2] = "0" THEN bytes[1] ELSE "?">>
       \o Utf16Units(SubSeq(bytes, 3, Len(bytes)))

\* a unit cut short cannot be decoded
Utf16Valid(bytes) == Len(bytes) % 2 = 0

convert_to_utf8(bytes, charset) ==
  IF charset = "utf-16le"
  THEN IF Utf16Valid(bytes)
       THEN [ok |-> TRUE, text |-> Utf16Units(bytes)]
       ELSE [ok |-> FALSE, text |-> <<>>]
  ELSE IF \E i \in 1..Len(bytes) : bytes[i] = "\\xFF"
       THEN [ok |-> FALSE, text |-> <<>>]
       ELSE [ok |-> TRUE, text |-> bytes]

\* TextDocument::to_str
to_str(doc) == convert_to_utf8(doc.bytes, doc.charset)

\* a faulty test, one that takes every body for a shebang script
StartsWithShebangAlways(bytes) == TRUE

\* bytes.starts_with(b"#!")
StartsWithShebang(bytes) ==
  Len(bytes) >= 2 /\ bytes[1] = "#" /\ bytes[2] = "!"

\* str::find('\n'): the first index holding a newline, 0 when there is none
FindNewline(string) ==
  IF \E i \in 1..Len(string) : string[i] = "\n"
  THEN CHOOSE i \in 1..Len(string) :
         /\ string[i] = "\n"
         /\ \A j \in 1..(i - 1) : string[j] # "\n"
  ELSE 0

\* a faulty filter, one that cuts the newline with the line
filter_shebang_line(string) ==
  LET i == FindNewline(string) IN
    IF i > 0 THEN SubSeq(string, i + 1, Len(string)) ELSE <<>>

\* filter_shebang(string): the text from its first newline on
filter_shebang(string) ==
  LET i == FindNewline(string) IN
    IF i > 0 THEN SubSeq(string, i, Len(string)) ELSE <<>>

----------------------------------------------------------------------------
(* Media types *)

\* Path::extension of the last path segment ("" when there is none)
ExtOf(segment) ==
  CASE segment = "m.ts" -> "ts"
    [] segment = "m.tsx" -> "tsx"
    [] segment = "m.js" -> "js"
    [] segment = "m.jsx" -> "jsx"
    [] segment = "m.cjs" -> "cjs"
    [] segment = "m.d.ts" -> "ts"
    [] segment = "m.json" -> "json"
    [] segment = "m.wasm" -> "wasm"
    [] segment = "m.txt" -> "txt"
    [] OTHER -> ""

path_extension(path) ==
  IF Len(path) = 0 THEN "" ELSE ExtOf(path[Len(path)])

\* MediaType::from(&Path)
MediaTypeFromPath(path) ==
  LET ext == path_extension(path) IN
    CASE ext = "ts" -> "TypeScript"
      [] ext = "tsx" -> "TSX"
      [] ext = "js" -> "JavaScript"
      [] ext = "cjs" -> "JavaScript"
      [] ext = "jsx" -> "JSX"
      [] ext = "json" -> "Json"
      [] ext = "wasm" -> "Wasm"
      [] OTHER -> "Unknown"

\* a faulty map_js_like_extension, one that keeps the class of the header
map_js_like_extension_default(path, default) == default

\* map_js_like_extension(path, default)
map_js_like_extension(path, default) ==
  LET ext == path_extension(path) IN
    CASE ext = "jsx" -> "JSX"
      [] ext = "tsx" -> "TSX"
      [] OTHER -> default

\* str::to_lowercase on the media-type segment
to_lowercase(ct) ==
  CASE ct = "Application/TypeScript" -> "application/typescript"
    [] ct = "TEXT/JAVASCRIPT" -> "text/javascript"
    [] OTHER -> ct

\* str::trim followed by strip_prefix("charset="): "" when the segment is
\* no charset parameter
strip_charset(segment) ==
  CASE segment = "charset=utf-16le" -> "utf-16le"
    [] segment = " charset=utf-16le" -> "utf-16le"
    [] segment = "charset=utf-8" -> "utf-8"
    [] OTHER -> ""

TsContentTypes ==
  {"application/typescript", "text/typescript", "video/vnd.dlna.mpeg-tts",
   "video/mp2t", "application/x-typescript"}

JsContentTypes ==
  {"application/javascript", "text/javascript", "application/ecmascript",
   "text/ecmascript", "application/x-javascript", "application/node"}

\* find_map over the segments after the first
FindCharset(segments) ==
  LET hits == {i \in 2..Len(segments) : strip_charset(segments[i]) # ""} IN
    IF hits = {} THEN ""
    ELSE strip_charset(segments[CHOOSE i \in hits : \A j \in hits : i <= j])

\* a faulty map_content_type, one that falls back on the extension for a
\* content type it does not list
map_content_type_sniff(path, content_type) ==
  IF Len(content_type) = 0
  THEN [media_type |-> MediaTypeFromPath(path), charset |-> ""]
  ELSE LET ct == to_lowercase(content_type[1])
           media_type ==
             CASE ct \in TsContentTypes ->
                    map_js_like_extension(path, "TypeScript")
               [] ct \in JsContentTypes ->
                    map_js_like_extension(path, "JavaScript")
               [] ct \in {"application/json", "text/json"} -> "Json"
               [] ct = "application/wasm" -> "Wasm"
               [] OTHER -> MediaTypeFromPath(path)
       IN [media_type |-> media_type, charset |-> FindCharset(content_type)]

\* content_type is <<>> for None, else the ';'-separated segments
map_content_type(path, content_type) ==
  IF Len(content_type) = 0
  THEN [media_type |-> MediaTypeFromPath(path), charset |-> ""]
  ELSE LET ct == to_lowercase(content_type[1])
           media_type ==
             CASE ct \in TsContentTypes ->
                    map_js_like_extension(path, "TypeScript")
               [] ct \in JsContentTypes ->
                    map_js_like_extension(path, "JavaScript")
               [] ct \in {"application/json", "text/json"} -> "Json"
               [] ct = "application/wasm" -> "Wasm"
               [] ct \in {"text/plain", "application/octet-stream"} ->
                    MediaTypeFromPath(path)
               [] OTHER -> "Unknown"
       IN [media_type |-> media_type, charset |-> FindCharset(content_type)]

----------------------------------------------------------------------------
(* Cache blocklist.  A string that spells a url is kept as its pieces      *)
(* between '/' characters (the scheme stands for "scheme:", so that        *)
(* "http://h/std/" is <<"http", "", "h", "std", "">>), its query and its   *)
(* fragment, "" when the string has none.                                  *)

Str(parts, query, fragment) ==
  [parts |-> parts, query |-> query, fragment |-> fragment]

\* Url::as_str
as_str(url) ==
  Str(<<url.scheme, "", url.host>> \o url.path, url.query, url.fragment)

\* the separators that end a path do not belong to its last component
RECURSIVE TrimRight(_)
TrimRight(parts) ==
  IF Len(parts) > 0 /\ parts[Len(parts)] = ""
  THEN TrimRight(SubSeq(parts, 1, Len(parts) - 1))
  ELSE parts

\* the components of a path: a query or a fragment is text of the last one
Pieces(string) ==
  IF string.query = "" /\ string.fragment = ""
  THEN TrimRight(string.parts)
  ELSE SubSeq(string.parts, 1, Len(string.parts) - 1) \o <<"?">>

\* a faulty parent, one that leaves the separators of the end in place
parent_untrimmed(string) ==
  Str(SubSeq(Pieces(string), 1, Len(Pieces(string)) - 1), "", "")

\* Path::parent: the path without its last component
parent(string) ==
  Str(TrimRight(SubSeq(Pieces(string), 1, Len(Pieces(string)) - 1)), "", "")

\* a faulty loop, one that pops before it looks
RECURSIVE PathBufStringsPopped(_)
PathBufStringsPopped(string) ==
  IF Pieces(string) = <<>> THEN {}
  ELSE {parent(string)} \cup PathBufStringsPopped(parent(string))

\* the strings path_buf takes on in the loop: pop() truncates it to its
\* parent and returns false when it has no component left
RECURSIVE PathBufStrings(_)
PathBufStrings(string) ==
  {string} \cup
  (IF Pieces(string) = <<>> THEN {} ELSE PathBufStrings(parent(string)))

\* a faulty matcher, one that looks at the query-stripped prefixes only
check_cache_blocklist_bare(url, black_list) ==
  LET listed == {black_list[i] : i \in 1..Len(black_list)}
      url_without_query_strings == clear_query(clear_fragment(url))
  IN PathBufStrings(as_str(url_without_query_strings)) \cap listed # {}

\* check_cache_blocklist(url, black_list)
check_cache_blocklist(url, black_list) ==
  LET listed == {black_list[i] : i \in 1..Len(black_list)}
      url_without_fragmets == clear_fragment(url)
      url_without_query_strings == clear_query(url_without_fragmets)
  IN \/ as_str(url_without_fragmets) \in listed
     \/ PathBufStrings(as_str(url_without_query_strings)) \cap listed # {}

----------------------------------------------------------------------------
(* Errors and results *)

NoUrl == Url("", "", <<>>, "", "")

\* class: the error class; iokind: the kind when the error is a
\* std::io::Error, else ""; msg: the message template; url: the url or path
\* the message spells out (NoUrl when it spells none)
Error(class, iokind, msg, url) ==
  [class |-> class, iokind |-> iokind, msg |-> msg, url |-> url]

TooManyRedirects == Error("Http", "", "too many redirects", NoUrl)
UnsupportedScheme(url) == Error("Error", "", "Unsupported scheme", url)
NetDenied(url) == Error("PermissionDenied", "", "network access", url)
ReadDenied(url) == Error("PermissionDenied", "", "read access", url)
NotAllowedRemote(url) ==
  Error("Io", "NotFound", "Not allowed to get remote file", url)
CachedOnlyRemote(url) ==
  Error("NotFound", "",
        "Cannot find remote file in cache, --cached-only is specified", url)
InvalidFilePath == Error("URIError", "", "File URL contains invalid path", NoUrl)
FileNotFound == Error("Io", "NotFound", "No such file or directory", NoUrl)
ImportFailed(url) == Error("Io", "Other", "Import failed", url)
CacheReadFailed == Error("Io", "InvalidData", "cache read failed", NoUrl)
LocationParseError == Error("ParseError", "", "invalid location", NoUrl)
CannotFindInCache(url, referrer) ==
  [class |-> "NotFound", iokind |-> "",
   msg |-> "Cannot find module in cache, --cached-only is specified",
   url |-> url, referrer |-> referrer]
CannotResolve(url, referrer) ==
  [class |-> "NotFound", iokind |-> "", msg |-> "Cannot resolve module",
   url |-> url, referrer |-> referrer]

\* the text of a url holds "--cached-only"
UrlSpellsCachedOnly(url) ==
  \/ url.query = "--cached-only"
  \/ url.fragment = "--cached-only"
  \/ \E i \in 1..Len(url.path) : url.path[i] = "--cached-only"

\* err.to_string().contains("--cached-only")
MessageContainsCachedOnly(err) ==
  \/ err.msg \in
       {"Cannot find remote file in cache, --cached-only is specified",
        "Cannot find module in cache, --cached-only is specified"}
  \/ UrlSpellsCachedOnly(err.url)

\* Result<SourceFile>, Result<Option<SourceFile>>, Option<SourceFile>, and
\* the panic of an unwrap
Ok(file) == [tag |-> "file", file |-> file]
OkNone == [tag |-> "none"]
Err(err) == [tag |-> "err", err |-> err]
Panic == [tag |-> "panic"]
Unit == [tag |-> "unit"]
NoResult == [tag |-> "pending"]

NoFile == [url |-> NoUrl]

\* the Mutex of SourceFileCache with no guard alive
Unlocked == "unlocked"

----------------------------------------------------------------------------
(* HttpCache: get, set and get_cache_filename.  An entry is the content    *)
(* bytes and the headers map of a url.                                     *)

Missing == [state |-> "missing"]
Corrupt == [state |-> "corrupt"]
Entry(bytes, headers) ==
  [state |-> "stored", bytes |-> bytes, headers |-> headers]

\* the cache file of a url: scheme, host, and a hash of path and query
CacheKey(url) == clear_fragment(url)

HttpCacheGet(cache, url) ==
  IF CacheKey(url) \in DOMAIN cache THEN cache[CacheKey(url)] ELSE Missing

HttpCacheSet(cache, url, headers, bytes) ==
  [u \in DOMAIN cache \cup {CacheKey(url)} |->
     IF u = CacheKey(url) THEN Entry(bytes, headers) ELSE cache[u]]

get_cache_filename(url) == [dir |-> "deps", name |-> CacheKey(url)]

HeaderOr(headers, name, default) ==
  IF name \in DOMAIN headers THEN headers[name] ELSE default

----------------------------------------------------------------------------
(* fetch_cached_remote_source.  Besides the result it reports the number   *)
(* of cache reads it made and of placeholders it followed.                 *)

\* a faulty reading of the headers, one that finds no types header
TypesHeaderNone(headers) == ""

\* headers.get("x-typescript-types"), "" when absent
TypesHeader(headers) == HeaderOr(headers, "x-typescript-types", "")

\* a faulty record, its media type classified by the name of the cache file
CachedSourceFileByName(module_url, entry) ==
  LET mapped == map_content_type(<<"deps">>,
                                 HeaderOr(entry.headers, "content-type", <<>>))
  IN [url |-> module_url,
      filename |-> get_cache_filename(module_url),
      media_type |-> mapped.media_type,
      source_code |-> TextDocument(entry.bytes, mapped.charset),
      types_header |-> HeaderOr(entry.headers, "x-typescript-types", "")]

\* a faulty record, one that bears the url of another hop
CachedSourceFileAt(module_url, entry) ==
  LET mapped == map_content_type(module_url.path,
                                 HeaderOr(entry.headers, "content-type", <<>>))
  IN [url |-> UA,
      filename |-> get_cache_filename(module_url),
      media_type |-> mapped.media_type,
      source_code |-> TextDocument(entry.bytes, mapped.charset),
      types_header |-> HeaderOr(entry.headers, "x-typescript-types", "")]

CachedSourceFile(module_url, entry) ==
  LET mapped == map_content_type(module_url.path,
                                 HeaderOr(entry.headers, "content-type", <<>>))
  IN [url |-> module_url,
      filename |-> get_cache_filename(module_url),
      media_type |-> mapped.media_type,
      source_code |-> TextDocument(entry.bytes, mapped.charset),
      types_header |-> TypesHeader(entry.headers)]

\* a faulty reader, one that resolves a path as the HTTP client does
CachedRedirectUrlJoined(module_url, redirect_to) ==
  LET parsed == UrlParse(redirect_to) IN
    IF parsed.ok THEN [ok |-> TRUE, url |-> parsed.url]
    ELSE IF parsed.err = "RelativeUrlWithoutBase"
         THEN [ok |-> TRUE,
               url |-> Url(module_url.scheme, module_url.host,
                           redirect_to.path, "", "")]
         ELSE [ok |-> FALSE, url |-> NoUrl]

\* the url a cached location header leads to
CachedRedirectUrl(module_url, redirect_to) ==
  LET parsed == UrlParse(redirect_to) IN
    IF parsed.ok THEN [ok |-> TRUE, url |-> parsed.url]
    ELSE IF parsed.err = "RelativeUrlWithoutBase"
         THEN [ok |-> TRUE, url |-> set_path(module_url, redirect_to.path)]
         ELSE [ok |-> FALSE, url |-> NoUrl]

\* a faulty recursion, one that hands its whole budget on
NextLimitSame(redirect_limit) == redirect_limit

\* the budget handed to the next hop: redirect_limit - 1
NextLimit(redirect_limit) == redirect_limit - 1

\* a faulty budget check, one hop too generous
CachedLimitExceededLate(redirect_limit) == redirect_limit < -1

\* the budget check of the cached reader
CachedLimitExceeded(redirect_limit) == redirect_limit < 0

RECURSIVE fetch_cached_remote_source(_, _, _)
fetch_cached_remote_source(cache, module_url, redirect_limit) ==
  IF CachedLimitExceeded(redirect_limit)
  THEN [result |-> Err(TooManyRedirects), reads |-> 0, hops |-> 0]
  ELSE
    LET entry == HttpCacheGet(cache, module_url) IN
      CASE entry.state = "missing" ->
             [result |-> OkNone, reads |-> 1, hops |-> 0]
        [] entry.state = "corrupt" ->
             [result |-> Err(CacheReadFailed), reads |-> 1, hops |-> 0]
        [] OTHER ->
             IF "location" \in DOMAIN entry.headers
             THEN
               LET next == CachedRedirectUrl(module_url,
                                             entry.headers["location"])
               IN IF ~next.ok
                  THEN [result |-> Err(LocationParseError),
                        reads |-> 1, hops |-> 0]
                  ELSE
                    LET rest == fetch_cached_remote_source(
                                  cache, next.url, NextLimit(redirect_limit))
                    IN [result |-> rest.result,
                        reads |-> rest.reads + 1,
                        hops |-> rest.hops + 1]
             ELSE [result |-> Ok(CachedSourceFile(module_url, entry)),
                   reads |-> 1, hops |-> 0]

----------------------------------------------------------------------------
(* The collaborators: permissions, the local disk, the origin servers      *)

\* Permissions: the hosts check_net_url allows, and whether check_read does
AllowAll == [net |-> {"a", "b"}, read |-> TRUE]
AllowHostA == [net |-> {"a"}, read |-> FALSE]
PermissionSets == {AllowAll, AllowHostA}

check_net_url(perms, url) == url.host \in perms.net
check_read(perms, path) == perms.read

\* a faulty conversion, one that drops the host of the url
to_file_path_lossy(url) == [ok |-> TRUE, path |-> url.path]

\* Url::to_file_path: a file url naming a host has no local path
to_file_path(url) ==
  IF url.host = "" THEN [ok |-> TRUE, path |-> url.path]
  ELSE [ok |-> FALSE, path |-> <<>>]

\* std::fs::read on the local disk
fs_read(path) ==
  IF path = <<"m.ts">> THEN [ok |-> TRUE, bytes |-> BodyShebang]
  ELSE [ok |-> FALSE, bytes |-> <<>>]

\* What a server holds for a url
Code(bytes, headers) == [kind |-> "code", bytes |-> bytes, headers |-> headers]
Redirect(headers) == [kind |-> "redirect", bytes |-> <<>>, headers |-> headers]
Failing == [kind |-> "error", bytes |-> <<>>, headers |-> <<>>]

\* http_util::resolve_url_from_location
resolve_url_from_location(base, location) ==
  IF location.kind = "abs" THEN location.url
  ELSE Url(base.scheme, base.host, location.path, "", "")

\* http_util::fetch_once: one request, conditional when an etag is given
fetch_once(servers, url, etag) ==
  LET held == IF url \in DOMAIN servers THEN servers[url] ELSE Failing IN
    CASE held.kind = "error" -> [tag |-> "err", err |-> ImportFailed(url)]
      [] held.kind # "error" /\ etag # ""
           /\ HeaderOr(held.headers, "etag", "") = etag ->
           [tag |-> "NotModified"]
      [] held.kind = "redirect" ->
           [tag |-> "Redirect",
            url |-> resolve_url_from_location(url, held.headers["location"]),
            headers |-> held.headers]
      [] OTHER ->
           [tag |-> "Code", bytes |-> held.bytes, headers |-> held.headers]

----------------------------------------------------------------------------
(* fetch_local_file *)
\* a faulty gate, one that refuses no path
ReadRefusedNever(perms, filepath) == FALSE

\* permissions.check_read(&filepath) returned the denial
ReadRefused(perms, filepath) == ~check_read(perms, filepath)

fetch_local_file(module_url, perms) ==
  LET filepath == to_file_path(module_url) IN
    IF ~filepath.ok
    THEN [result |-> Err(InvalidFilePath), read_checks |-> 0, file_reads |-> 0]
    ELSE IF ReadRefused(perms, filepath.path)
    THEN [result |-> Err(ReadDenied(module_url)), read_checks |-> 1,
          file_reads |-> 0]
    ELSE
      LET read == fs_read(filepath.path)
          mapped == map_content_type(filepath.path, <<>>)
      IN IF ~read.ok
         THEN [result |-> Err(FileNotFound), read_checks |-> 1,
               file_reads |-> 1]
         ELSE [result |->
                 Ok([url |-> module_url,
                     filename |-> [dir |-> "fs", name |-> module_url],
                     media_type |-> mapped.media_type,
                     source_code |-> TextDocument(read.bytes, mapped.charset),
                     types_header |-> ""]),
               read_checks |-> 1, file_reads |-> 1]

----------------------------------------------------------------------------
(* fetch_remote_source, up to its await of fetch_once.  The outcome is     *)
(* either the result of the call or the etag of the request to send.       *)

\* a faulty probe, one that never finds an etag
EtagProbeNone(cache, module_url) == ""

\* the etag read from the cache entry of the url
EtagProbe(cache, module_url) ==
  LET entry == HttpCacheGet(cache, module_url) IN
    IF entry.state = "stored" THEN HeaderOr(entry.headers, "etag", "") ELSE ""

\* a faulty fetch_remote_source, one that reads the cache for blocked urls
ReadsDiskCacheBlocked(use_disk_cache, is_blocked) == use_disk_cache

\* a faulty fetch_remote_source, one that never consults the cached reader
ReadsDiskCacheNever(use_disk_cache, is_blocked) == FALSE

\* whether the cached reader is consulted at all
ReadsDiskCache(use_disk_cache, is_blocked) == use_disk_cache /\ ~is_blocked

\* a faulty gate, one that never gives up
OfflineGateOpen(cached_only) == FALSE

\* whether the call gives up instead of going to the network
OfflineGate(cached_only) == cached_only

\* a faulty budget check, one hop too generous
RemoteLimitExceededLate(redirect_limit) == redirect_limit < -1

\* the budget check of the remote fetch
RemoteLimitExceeded(redirect_limit) == redirect_limit < 0

\* a faulty gate, one that refuses nobody
NetRefusedNever(perms, module_url) == FALSE

\* permissions.check_net_url(&module_url) returned the denial
NetRefused(perms, module_url) == ~check_net_url(perms, module_url)

fetch_remote_source(cache, black_list, module_url, use_disk_cache, cached_only, redirect_limit, perms) ==
  IF RemoteLimitExceeded(redirect_limit)
  THEN [tag |-> "done", result |-> Err(TooManyRedirects), etag |-> "",
        reads |-> 0, hops |-> 0, net_checks |-> 0]
  ELSE IF NetRefused(perms, module_url)
  THEN [tag |-> "done", result |-> Err(NetDenied(module_url)), etag |-> "",
        reads |-> 0, hops |-> 0, net_checks |-> 1]
  ELSE
    LET is_blocked == check_cache_blocklist(module_url, black_list)
        cached ==
          IF ReadsDiskCache(use_disk_cache, is_blocked)
          THEN fetch_cached_remote_source(cache, module_url, redirect_limit)
          ELSE [result |-> OkNone, reads |-> 0, hops |-> 0]
    IN IF cached.result.tag # "none"
       THEN [tag |-> "done", result |-> cached.result, etag |-> "",
             reads |-> cached.reads, hops |-> cached.hops, net_checks |-> 1]
       ELSE IF OfflineGate(cached_only)
       THEN [tag |-> "done", result |-> Err(CachedOnlyRemote(module_url)),
             etag |-> "", reads |-> cached.reads, hops |-> 0,
             net_checks |-> 1]
       ELSE [tag |-> "await", result |-> NoResult,
             etag |-> EtagProbe(cache, module_url),
             reads |-> cached.reads + 1, hops |-> 0, net_checks |-> 1]

----------------------------------------------------------------------------
(* SourceFileCache *)

\* a faulty lookup, one that never finds a record
SourceFileCacheGetNever(cache, key) == NoFile

SourceFileCacheGet(cache, key) == cache[key]

\* a faulty set, one that files the record under its own url
SourceFileCacheSetByUrl(cache, key, source_file) ==
  [cache EXCEPT ![source_file.url] = source_file]

SourceFileCacheSet(cache, key, source_file) ==
  [cache EXCEPT ![key] = source_file]

----------------------------------------------------------------------------
(* fetch_source_file: what it makes of the result of get_source_file *)

\* a faulty strip step, one that cuts the two bytes of the prefix only
StripShebangPrefix(file) ==
  IF StartsWithShebang(file.source_code.bytes)
  THEN LET text == to_str(file.source_code) IN
         IF text.ok
         THEN Ok([file EXCEPT
                    !.source_code =
                      TextDocument(SubSeq(text.text, 3, Len(text.text)), "")])
         ELSE Panic
  ELSE Ok(file)

\* the Ok arm: the shebang line is cut from the decoded text
StripShebang(file) ==
  IF StartsWithShebang(file.source_code.bytes)
  THEN LET text == to_str(file.source_code) IN
         IF text.ok
         THEN Ok([file EXCEPT
                    !.source_code = TextDocument(filter_shebang(text.text), "")])
         ELSE Panic
  ELSE Ok(file)

\* a faulty Err arm, one that hands every error on as it is
MapFetchErrorVerbatim(err, module_url, referrer) == err

\* a faulty Err arm, one that tells the cached-only error by its class
MapFetchErrorByClass(err, module_url, referrer) ==
  IF err.class = "NotFound"
  THEN CannotFindInCache(module_url, referrer)
  ELSE IF err.iokind = "NotFound"
  THEN CannotResolve(module_url, referrer)
  ELSE err

\* the Err arm: the two rewraps
MapFetchError(err, module_url, referrer) ==
  IF MessageContainsCachedOnly(err)
  THEN CannotFindInCache(module_url, referrer)
  ELSE IF err.iokind = "NotFound"
  THEN CannotResolve(module_url, referrer)
  ELSE err

\* a faulty hit, one that runs the shebang step on the record it found
CachedHitStripped(file) == StripShebang(file)

\* a record found in the memory cache is returned as it is
CachedHit(file) == Ok(file)

FetchSourceFileOutcome(specifier, referrer, inner) ==
  CASE inner.tag = "file" -> StripShebang(inner.file)
    [] inner.tag = "err" -> Err(MapFetchError(inner.err, specifier, referrer))
    [] OTHER -> inner

----------------------------------------------------------------------------
(* Requests *)

Requests == {"r1"}

NoPermissions == [net |-> {}, read |-> FALSE]

Idle ==
  [pc |-> "idle", entry |-> "", specifier |-> NoUrl, referrer |-> NoUrl,
   module_url |-> NoUrl, use_disk_cache |-> FALSE, cached_only |-> FALSE,
   redirect_limit |-> 0, limit0 |-> 0, perms |-> NoPermissions,
   module_etag |-> "", inner |-> NoResult, result |-> NoResult,
   \* what the call has done so far
   fetches |-> 0, writes |-> 0, reads |-> 0, net_checks |-> 0,
   read_checks |-> 0, file_reads |-> 0, net_hops |-> 0, cache_hops |-> 0,
   redirected |-> {}, revalidated |-> FALSE]

\* a faulty match, one that files an empty record when the fetch failed
CacheResultEager(cache, key, result) ==
  SourceFileCacheSet(cache, key,
                     IF result.tag = "file" THEN result.file
                     ELSE [NoFile EXCEPT !.url = key])

\* the match on the result: only the Ok arm calls source_file_cache.set
CacheResult(cache, key, result) ==
  IF result.tag = "file"
  THEN SourceFileCacheSet(cache, key, result.file) ELSE cache

\* the call returns `inner` from its fetch path
Complete(p, r, inner, cache) ==
  LET result == IF r.entry = "fetch_source_file"
                THEN FetchSourceFileOutcome(r.specifier, r.referrer, inner)
                ELSE inner
  IN /\ req' = [req EXCEPT ![p] = [r EXCEPT !.pc = "done", !.inner = inner,
                                             !.result = result]]
     /\ source_file_cache' =
          IF r.entry = "fetch_source_file"
          THEN CacheResult(source_file_cache, r.specifier, result)
          ELSE source_file_cache
     /\ returned' =
          IF r.entry = "fetch_source_file" /\ result.tag = "file"
             /\ returned[r.specifier] = NoFile
          THEN [returned EXCEPT ![r.specifier] = result.file]
          ELSE returned
     /\ http_cache' = cache

\* fetch_remote_source was entered for r.module_url with outcome `start`
Proceed(p, r, start, cache) ==
  LET r2 == [r EXCEPT !.reads = @ + start.reads,
                      !.net_checks = @ + start.net_checks,
                      !.cache_hops = start.hops,
                      !.module_etag = start.etag]
  IN IF start.tag = "done"
     THEN Complete(p, r2, start.result, cache)
     ELSE /\ req' = [req EXCEPT ![p] = [r2 EXCEPT !.pc = "await",
                                                   !.fetches = @ + 1]]
          /\ source_file_cache' = source_file_cache
          /\ returned' = returned
          /\ http_cache' = cache

StartCall(p) ==
  /\ req[p].pc = "idle"
  /\ calls > 0
  /\ calls' = calls - 1
  /\ UNCHANGED <<origin, config, saves, restripped, mutex>>

----------------------------------------------------------------------------
(* The entry points *)

\* a faulty guard, one that lets every scheme through
check_if_supported_scheme_any(url) == Unit

\* check_if_supported_scheme(url)
check_if_supported_scheme(url) ==
  IF url.scheme \notin SUPPORTED_URL_SCHEMES
  THEN Err(UnsupportedScheme(url)) ELSE Unit

\* a faulty gate, one that lets remote files through
RemoteForbiddenNever(no_remote) == FALSE

\* get_source_file: the file is remote, fail if `no_remote` is true
RemoteForbidden(no_remote) == no_remote

\* fetch_source_file(specifier, maybe_referrer, permissions)
FetchSourceFile(p, specifier, referrer, perms) ==
  /\ StartCall(p)
  /\ LET r == [Idle EXCEPT !.entry = "fetch_source_file",
                           !.specifier = specifier, !.referrer = referrer,
                           !.module_url = specifier,
                           !.use_disk_cache = config.use_disk_cache,
                           !.cached_only = config.cached_only,
                           !.redirect_limit = RedirectLimit,
                           !.limit0 = RedirectLimit, !.perms = perms]
         maybe_cached_file == SourceFileCacheGet(source_file_cache, specifier)
     IN IF maybe_cached_file # NoFile
        THEN /\ req' = [req EXCEPT ![p] =
                          [r EXCEPT !.pc = "done",
                                    !.result = CachedHit(maybe_cached_file)]]
             /\ UNCHANGED <<source_file_cache, http_cache, returned>>
        \* get_source_file
        ELSE IF check_if_supported_scheme(specifier) # Unit
        THEN Complete(p, r, check_if_supported_scheme(specifier), http_cache)
        ELSE IF specifier.scheme = "file"
        THEN LET local == fetch_local_file(specifier, perms) IN
               Complete(p, [r EXCEPT !.read_checks = local.read_checks,
                                     !.file_reads = local.file_reads],
                        local.result, http_cache)
        ELSE IF RemoteForbidden(config.no_remote)
        THEN Complete(p, r, Err(NotAllowedRemote(specifier)), http_cache)
        ELSE Proceed(p, r,
                     fetch_remote_source(http_cache, config.cache_blocklist,
                                         specifier, config.use_disk_cache,
                                         config.cached_only, RedirectLimit,
                                         perms),
                     http_cache)

\* fetch_remote_source called directly, as the tests of the redirect limit do
FetchRemoteSource(p, module_url, use_disk_cache, cached_only, redirect_limit, perms) ==
  /\ StartCall(p)
  /\ LET r == [Idle EXCEPT !.entry = "fetch_remote_source",
                           !.specifier = module_url,
                           !.module_url = module_url,
                           !.use_disk_cache = use_disk_cache,
                           !.cached_only = cached_only,
                           !.redirect_limit = redirect_limit,
                           !.limit0 = redirect_limit, !.perms = perms]
     IN Proceed(p, r,
                fetch_remote_source(http_cache, config.cache_blocklist,
                                    module_url, use_disk_cache, cached_only,
                                    redirect_limit, perms),
                http_cache)

\* a faulty get_source_file_from_local_cache, one that finds nothing for a
\* url on the blocklist
get_source_file_from_local_cache_listed(cache, module_url, perms) ==
  IF check_if_supported_scheme(module_url) # Unit
  THEN [result |-> check_if_supported_scheme(module_url),
        reads |-> 0, hops |-> 0, read_checks |-> 0, file_reads |-> 0]
  ELSE IF module_url.scheme = "file"
  THEN LET local == fetch_local_file(module_url, perms) IN
         [result |-> local.result, reads |-> 0, hops |-> 0,
          read_checks |-> local.read_checks, file_reads |-> local.file_reads]
  ELSE IF check_cache_blocklist(module_url, config.cache_blocklist)
  THEN [result |-> OkNone, reads |-> 0, hops |-> 0, read_checks |-> 0,
        file_reads |-> 0]
  ELSE LET cached == fetch_cached_remote_source(cache, module_url,
                                                RedirectLimit)
       IN [result |-> cached.result, reads |-> cached.reads,
           hops |-> cached.hops, read_checks |-> 0, file_reads |-> 0]

\* a faulty get_source_file_from_local_cache, its reader without a budget
get_source_file_from_local_cache_0(cache, module_url, perms) ==
  IF check_if_supported_scheme(module_url) # Unit
  THEN [result |-> check_if_supported_scheme(module_url),
        reads |-> 0, hops |-> 0, read_checks |-> 0, file_reads |-> 0]
  ELSE IF module_url.scheme = "file"
  THEN LET local == fetch_local_file(module_url, perms) IN
         [result |-> local.result, reads |-> 0, hops |-> 0,
          read_checks |-> local.read_checks, file_reads |-> local.file_reads]
  ELSE LET cached == fetch_cached_remote_source(cache, module_url, 0)
       IN [result |-> cached.result, reads |-> cached.reads,
           hops |-> cached.hops, read_checks |-> 0, file_reads |-> 0]

\* get_source_file_from_local_cache
get_source_file_from_local_cache(cache, module_url, perms) ==
  IF check_if_supported_scheme(module_url) # Unit
  THEN [result |-> check_if_supported_scheme(module_url),
        reads |-> 0, hops |-> 0, read_checks |-> 0, file_reads |-> 0]
  ELSE IF module_url.scheme = "file"
  THEN LET local == fetch_local_file(module_url, perms) IN
         [result |-> local.result, reads |-> 0, hops |-> 0,
          read_checks |-> local.read_checks, file_reads |-> local.file_reads]
  ELSE LET cached == fetch_cached_remote_source(cache, module_url,
                                                RedirectLimit)
       IN [result |-> cached.result, reads |-> cached.reads,
           hops |-> cached.hops, read_checks |-> 0, file_reads |-> 0]

\* fetch_cached_source_file(specifier, permissions): Option<SourceFile>
FetchCachedSourceFile(p, specifier, perms) ==
  /\ StartCall(p)
  /\ LET maybe_source_file == SourceFileCacheGet(source_file_cache, specifier)
         local == get_source_file_from_local_cache(http_cache, specifier,
                                                   perms)
         r == [Idle EXCEPT !.entry = "fetch_cached_source_file",
                           !.specifier = specifier, !.module_url = specifier,
                           !.redirect_limit = RedirectLimit,
                           !.limit0 = RedirectLimit, !.perms = perms,
                           !.pc = "done"]
     IN req' = [req EXCEPT ![p] =
          IF maybe_source_file # NoFile
          THEN [r EXCEPT !.result = CachedHit(maybe_source_file)]
          ELSE [r EXCEPT !.inner = local.result,
                         !.result = IF local.result.tag = "file"
                                    THEN local.result ELSE OkNone,
                         !.reads = local.reads, !.cache_hops = local.hops,
                         !.read_checks = local.read_checks,
                         !.file_reads = local.file_reads]]
  /\ UNCHANGED <<source_file_cache, http_cache, returned>>

\* fetch_cached_remote_source called directly
FetchCachedRemoteSource(p, module_url, redirect_limit) ==
  /\ StartCall(p)
  /\ LET cached == fetch_cached_remote_source(http_cache, module_url,
                                              redirect_limit)
     IN req' = [req EXCEPT ![p] =
          [Idle EXCEPT !.entry = "fetch_cached_remote_source",
                       !.specifier = module_url, !.module_url = module_url,
                       !.redirect_limit = redirect_limit,
                       !.limit0 = redirect_limit, !.pc = "done",
                       !.inner = cached.result, !.result = cached.result,
                       !.reads = cached.reads, !.cache_hops = cached.hops]]
  /\ UNCHANGED <<source_file_cache, http_cache, returned>>

CheckIfSupportedScheme(p, url) ==
  /\ StartCall(p)
  /\ req' = [req EXCEPT ![p] =
       [Idle EXCEPT !.entry = "check_if_supported_scheme",
                    !.specifier = url, !.module_url = url, !.pc = "done",
                    !.result = check_if_supported_scheme(url)]]
  /\ UNCHANGED <<source_file_cache, http_cache, returned>>

\* save_source_file_in_cache(specifier, file)
SaveSourceFileInCache(p, specifier, file) ==
  /\ req[p].pc = "idle"
  /\ saves > 0
  /\ saves' = saves - 1
  /\ source_file_cache' = SourceFileCacheSet(source_file_cache, specifier, file)
  /\ req' = [req EXCEPT ![p] =
       [Idle EXCEPT !.entry = "save_source_file_in_cache",
                    !.specifier = specifier, !.module_url = specifier,
                    !.pc = "done", !.result = Unit]]
  /\ UNCHANGED <<http_cache, origin, config, returned, calls, restripped, mutex>>

\* the caller takes the result
Return(p) ==
  /\ req[p].pc = "done"
  /\ req' = [req EXCEPT ![p] = Idle]
  /\ UNCHANGED <<source_file_cache, http_cache, origin, config, returned,
                 calls, saves, restripped, mutex>>

----------------------------------------------------------------------------
(* The answers of fetch_once, and what fetch_remote_source does with them  *)

Awaited(p) == fetch_once(origin, req[p].module_url, req[p].module_etag)

AnswerArrives(p, tag) ==
  /\ req[p].pc = "await"
  /\ Awaited(p).tag = tag
  /\ UNCHANGED <<origin, config, calls, saves, restripped, mutex>>

\* the request fails: the error passes through
FetchOnceFails(p) ==
  /\ AnswerArrives(p, "err")
  /\ Complete(p, req[p], Err(Awaited(p).err), http_cache)

\* a faulty NotModified arm, one that gives the cached reader no budget
NotModifiedLimitNone == 0 - 1

\* FetchOnceResult::NotModified: the record is rebuilt from the cache
NotModifiedLimit == RedirectLimit

\* a faulty unwrap, one that hands the missing hit on
UnwrapLenient(result) == result

\* Option::unwrap on the cached reader's hit: None aborts the thread
Unwrap(result) == IF result.tag = "none" THEN Panic ELSE result

FetchOnceNotModified(p) ==
  /\ AnswerArrives(p, "NotModified")
  /\ LET r == req[p]
         cached == fetch_cached_remote_source(http_cache, r.module_url,
                                              NotModifiedLimit)
     IN Complete(p, [r EXCEPT !.reads = @ + cached.reads,
                              !.cache_hops = cached.hops,
                              !.revalidated = TRUE],
                 Unwrap(cached.result),
                 http_cache)

\* a faulty Redirect arm, one that recurses without writing the placeholder
RedirectPlaceholderSkipped(cache, module_url, headers) == cache

\* a faulty placeholder, its location resolved to an absolute url
RedirectPlaceholderResolved(cache, module_url, headers) ==
  HttpCacheSet(cache, module_url,
               [headers EXCEPT !["location"] =
                  LocAbs(resolve_url_from_location(module_url, @))],
               <<>>)

\* the entry written for a redirecting url
RedirectPlaceholder(cache, module_url, headers) ==
  HttpCacheSet(cache, module_url, headers, <<>>)

\* FetchOnceResult::Redirect: a placeholder is written, the next hop entered
FetchOnceRedirect(p) ==
  /\ AnswerArrives(p, "Redirect")
  /\ LET r == req[p]
         answer == Awaited(p)
         cache == RedirectPlaceholder(http_cache, r.module_url, answer.headers)
         r2 == [r EXCEPT !.writes = @ + 1, !.net_hops = @ + 1,
                         !.redirected = @ \cup {r.module_url},
                         !.module_url = answer.url,
                         !.redirect_limit = NextLimit(@)]
     IN Proceed(p, r2,
                fetch_remote_source(cache, config.cache_blocklist, answer.url,
                                    r.use_disk_cache, r.cached_only,
                                    NextLimit(r.redirect_limit), r.perms),
                cache)

\* a faulty record, its media type classified without the content type
FetchedSourceFileByPath(module_url, source, headers) ==
  LET mapped == map_content_type(module_url.path, <<>>)
  IN [url |-> module_url,
      filename |-> get_cache_filename(module_url),
      media_type |-> mapped.media_type,
      source_code |-> TextDocument(source, mapped.charset),
      types_header |-> HeaderOr(headers, "x-typescript-types", "")]

\* the record of a FetchOnceResult::Code answer
FetchedSourceFile(module_url, source, headers) ==
  LET mapped == map_content_type(module_url.path,
                                 HeaderOr(headers, "content-type", <<>>))
  IN [url |-> module_url,
      filename |-> get_cache_filename(module_url),
      media_type |-> mapped.media_type,
      source_code |-> TextDocument(source, mapped.charset),
      types_header |-> TypesHeader(headers)]

\* a faulty store, one that writes the headers without the bytes
StorePayloadEmpty(cache, module_url, headers, source) ==
  HttpCacheSet(cache, module_url, headers, <<>>)

\* the entry written for a url that answered with code
StorePayload(cache, module_url, headers, source) ==
  HttpCacheSet(cache, module_url, headers, source)

\* FetchOnceResult::Code: the payload is written and returned
FetchOnceCode(p) ==
  /\ AnswerArrives(p, "Code")
  /\ LET r == req[p]
         answer == Awaited(p)
     IN Complete(p, [r EXCEPT !.writes = @ + 1],
                 Ok(FetchedSourceFile(r.module_url, answer.bytes,
                                      answer.headers)),
                 StorePayload(http_cache, r.module_url, answer.headers,
                              answer.bytes))

----------------------------------------------------------------------------
(* The initial states: a fetcher as new() leaves it, over a disk cache     *)
(* left by earlier runs and servers in some state                          *)

Header(name, value) == name :> value

\* what the servers may hold
RedirectAToB == Redirect(Header("location", LocAbs(UB)))
RedirectBToPath ==
  Redirect(Header("location", LocPath(<<"m.ts">>)) @@ Header("etag", "E2"))
RedirectCToA == Redirect(Header("location", LocAbs(UA)))
CodeJs == Code(BodyPlain, Header("content-type", CtJs))
CodeTs == Code(BodyPlain, Header("content-type", CtTs) @@ Header("etag", "E1"))
CodeShebang == Code(BodyShebang, Header("x-typescript-types", "m.d.ts"))
\* a payload answered with a location header of its own, as a 201 has
CodeLocated ==
  Code(BodyPlain, Header("content-type", CtTs) @@ Header("location", LocAbs(UA)))

Servers(a, b, c) ==
  [u \in RemoteUrls |-> IF u = UA THEN a ELSE IF u = UB THEN b ELSE c]

Origins ==
  {Servers(RedirectAToB, RedirectBToPath, CodeTs),
   Servers(RedirectAToB, RedirectBToPath, CodeShebang),
   Servers(RedirectAToB, RedirectBToPath, RedirectCToA),
   Servers(RedirectAToB, RedirectBToPath, Failing),
   Servers(RedirectAToB, RedirectBToPath, CodeLocated),
   Servers(CodeJs, RedirectBToPath, CodeTs)}

\* what earlier runs may have left on disk
PlaceholderAToB == Entry(<<>>, Header("location", LocAbs(UB)))
PlaceholderBToPath ==
  Entry(<<>>, Header("location", LocPath(<<"m.ts">>)) @@ Header("etag", "E2"))
PlaceholderCToA == Entry(<<>>, Header("location", LocAbs(UA)))
StoredJs ==
  Entry(BodyChanged, Header("content-type", CtJs) @@ Header("etag", "E1"))

InitialCaches ==
  {Servers(Missing, Missing, Missing),
   Servers(PlaceholderAToB, PlaceholderBToPath, StoredJs),
   Servers(PlaceholderAToB, PlaceholderBToPath, PlaceholderCToA),
   Servers(PlaceholderAToB, PlaceholderBToPath, Missing),
   Servers(Missing, PlaceholderBToPath, StoredJs),
   Servers(Missing, Missing, Corrupt)}

Config(use_disk_cache, no_remote, cached_only, cache_blocklist) ==
  [use_disk_cache |-> use_disk_cache, no_remote |-> no_remote,
   cached_only |-> cached_only, cache_blocklist |-> cache_blocklist]

Configs ==
  {Config(TRUE, FALSE, FALSE, <<>>),
   Config(TRUE, FALSE, FALSE, <<as_str(UC)>>),
   Config(FALSE, FALSE, FALSE, <<>>),
   Config(TRUE, FALSE, TRUE, <<>>),
   Config(TRUE, TRUE, FALSE, <<>>)}

\* what save_source_file_in_cache is handed
InjectedFile ==
  [url |-> UX, filename |-> [dir |-> "fs", name |-> UX],
   media_type |-> "TypeScript",
   source_code |-> TextDocument(BodyShebang, ""), types_header |-> ""]

Referrers == {NoUrl, UF}

SaveSpecifiers == {UC, UX}

Constructed ==
  /\ source_file_cache = [s \in AllSpecifiers |-> NoFile]
  /\ returned = [s \in AllSpecifiers |-> NoFile]
  /\ origin \in Origins
  /\ config \in Configs
  /\ req = [p \in Requests |-> Idle]
  /\ saves = MaxSaves
  /\ restripped = [s \in AllSpecifiers |-> NoResult]
  /\ mutex = Unlocked

\* one fetcher over any disk cache
Init ==
  /\ Constructed
  /\ http_cache \in InitialCaches
  /\ calls = MaxCalls

\* one fetcher over the empty disk cache of a first run
InitSeq ==
  /\ Constructed
  /\ http_cache = Servers(Missing, Missing, Missing)
  /\ calls = MaxSeqCalls

Next ==
  \/ \E p \in Requests, s \in Specifiers, f \in Referrers,
        perms \in PermissionSets : FetchSourceFile(p, s, f, perms)
  \/ \E p \in Requests, u \in RemoteUrls, d \in BOOLEAN, c \in BOOLEAN,
        n \in 0..MaxLimit, perms \in PermissionSets :
        FetchRemoteSource(p, u, d, c, n, perms)
  \/ \E p \in Requests, s \in Specifiers, perms \in PermissionSets :
        FetchCachedSourceFile(p, s, perms)
  \/ \E p \in Requests, u \in RemoteUrls, n \in 0..MaxLimit :
        FetchCachedRemoteSource(p, u, n)
  \/ \E p \in Requests, u \in Specifiers : CheckIfSupportedScheme(p, u)
  \/ \E p \in Requests, s \in SaveSpecifiers :
        SaveSourceFileInCache(p, s, InjectedFile)
  \/ \E p \in Requests : FetchOnceFails(p)
  \/ \E p \in Requests : FetchOnceNotModified(p)
  \/ \E p \in Requests : FetchOnceRedirect(p)
  \/ \E p \in Requests : FetchOnceCode(p)
  \/ \E p \in Requests : Return(p)

Spec == Init /\ [][Next]_vars

SpecSeq == InitSeq /\ [][Next]_vars

----------------------------------------------------------------------------
(* The shebang step over arbitrary fetched bytes: a fetcher over an empty  *)
(* disk cache whose server at UC answers with any short body, declared as  *)
(* utf-8 or as utf-16le                                                     *)

\* the longest body the server answers with
MaxLen == 4

ByteAlphabet == {"#", "!", "\n", "x", "0", "\\xFF"}

TextBodies == UNION {[1..n -> ByteAlphabet] : n \in 0..MaxLen}

TextHeaders == {Header("content-type", CtTs), Header("content-type", CtTsUtf16)}

\* the strip step of fetch_source_file, applied to the record it stored
StripAgain(s) ==
  /\ source_file_cache[s] # NoFile
  /\ restripped[s] = NoResult
  /\ restripped' =
       [restripped EXCEPT ![s] = StripShebang(source_file_cache[s])]
  /\ UNCHANGED <<source_file_cache, http_cache, origin, config, req, returned,
                 calls, saves, mutex>>

InitText ==
  /\ source_file_cache = [s \in AllSpecifiers |-> NoFile]
  /\ returned = [s \in AllSpecifiers |-> NoFile]
  /\ \E body \in TextBodies, headers \in TextHeaders :
       origin = Servers(Failing, Failing, Code(body, headers))
  /\ config = Config(TRUE, FALSE, FALSE, <<>>)
  /\ http_cache = Servers(Missing, Missing, Missing)
  /\ req = [p \in Requests |-> Idle]
  /\ calls = MaxCalls
  /\ saves = 0
  /\ restripped = [s \in AllSpecifiers |-> NoResult]
  /\ mutex = Unlocked

NextText ==
  \/ \E p \in Requests : FetchSourceFile(p, UC, NoUrl, AllowAll)
  \/ \E p \in Requests : FetchOnceCode(p)
  \/ \E p \in Requests : Return(p)
  \/ \E s \in Specifiers : StripAgain(s)

SpecText == InitText /\ [][NextText]_vars

----------------------------------------------------------------------------
(* The blocklist matcher over arbitrary short urls and blocklists, called  *)
(* directly as its test does                                               *)

\* the longest path of a url, in segments
MaxSegs == 2

PathSegments == {"std", "m.ts", ""}

BlockPaths == UNION {[1..n -> PathSegments] : n \in 1..MaxSegs}

BlockUrls ==
  {Url("http", "h", path, query, fragment) :
     path \in BlockPaths, query \in {"", "q=1", "q=2"}, fragment \in {"", "f"}}

\* a blocklist entry: a url spelled without its fragment, and without the
\* '/' that ends it or with it
BlockEntries ==
  {as_str(clear_fragment(u)) : u \in BlockUrls} \cup
  {Str(TrimRight(as_str(u).parts), "", "") :
     u \in {v \in BlockUrls : v.query = "" /\ v.fragment = ""}}

BlockLists ==
  {<<>>} \cup {<<e>> : e \in BlockEntries}
  \cup {<<e, as_str(UC)>> : e \in BlockEntries}
  \cup {<<as_str(UC), e>> : e \in BlockEntries}

Bool(value) == [tag |-> "bool", value |-> value]

\* check_cache_blocklist called directly
CheckCacheBlocklist(p, url) ==
  /\ StartCall(p)
  /\ req' = [req EXCEPT ![p] =
       [Idle EXCEPT !.entry = "check_cache_blocklist",
                    !.specifier = url, !.module_url = url, !.pc = "done",
                    !.result = Bool(check_cache_blocklist(
                                      url, config.cache_blocklist))]]
  /\ UNCHANGED <<source_file_cache, http_cache, returned>>

InitBlock ==
  /\ source_file_cache = [s \in AllSpecifiers |-> NoFile]
  /\ returned = [s \in AllSpecifiers |-> NoFile]
  /\ origin = Servers(Failing, Failing, Failing)
  /\ \E black_list \in BlockLists :
       config = Config(TRUE, FALSE, FALSE, black_list)
  /\ http_cache = Servers(Missing, Missing, Missing)
  /\ req = [p \in Requests |-> Idle]
  /\ calls = MaxCalls
  /\ saves = 0
  /\ restripped = [s \in AllSpecifiers |-> NoResult]
  /\ mutex = Unlocked

NextBlock ==
  \/ \E p \in Requests, u \in BlockUrls : CheckCacheBlocklist(p, u)
  \/ \E p \in Requests : Return(p)

SpecBlock == InitBlock /\ [][NextBlock]_vars

----------------------------------------------------------------------------
(* The classifier over the listed content types and the known extensions,  *)
(* called directly as its tests do                                         *)

MediaPaths ==
  {<<"m.ts">>, <<"m.tsx">>, <<"m.js">>, <<"m.jsx">>, <<"m.cjs">>,
   <<"m.json">>, <<"m.wasm">>, <<"m.txt">>, <<"m">>, <<"std", "m.tsx">>}

MediaTypeSegments ==
  TsContentTypes \cup JsContentTypes
  \cup {"application/json", "text/json", "application/wasm", "text/plain",
        "application/octet-stream", "text/html", "Application/TypeScript",
        "TEXT/JAVASCRIPT", ""}

\* None, a bare media type, a media type with a charset parameter
ContentTypes ==
  {<<>>} \cup {<<ct>> : ct \in MediaTypeSegments}
  \cup {<<ct, " charset=utf-16le">> : ct \in MediaTypeSegments}

\* what a call of map_content_type was given and what it returned
Mapped(path, content_type, out) ==
  [tag |-> "mapped", path |-> path, content_type |-> content_type,
   media_type |-> out.media_type, charset |-> out.charset]

\* map_content_type called directly
MapContentType(p, path, content_type) ==
  /\ StartCall(p)
  /\ req' = [req EXCEPT ![p] =
       [Idle EXCEPT !.entry = "map_content_type", !.pc = "done",
                    !.result = Mapped(path, content_type,
                                      map_content_type(path, content_type))]]
  /\ UNCHANGED <<source_file_cache, http_cache, returned>>

InitMedia ==
  /\ source_file_cache = [s \in AllSpecifiers |-> NoFile]
  /\ returned = [s \in AllSpecifiers |-> NoFile]
  /\ origin = Servers(Failing, Failing, Failing)
  /\ config = Config(TRUE, FALSE, FALSE, <<>>)
  /\ http_cache = Servers(Missing, Missing, Missing)
  /\ req = [p \in Requests |-> Idle]
  /\ calls = MaxCalls
  /\ saves = 0
  /\ restripped = [s \in AllSpecifiers |-> NoResult]
  /\ mutex = Unlocked

NextMedia ==
  \/ \E p \in Requests, path \in MediaPaths, ct \in ContentTypes :
        MapContentType(p, path, ct)
  \/ \E p \in Requests : Return(p)

SpecMedia == InitMedia /\ [][NextMedia]_vars

----------------------------------------------------------------------------
(* fetch_source_file refused by the permissions, also for urls whose text  *)
(* holds "--cached-only"                                                   *)

DeniedSpecifiers == {UC, UF, UZ, UFZ}

DenyingPermissions == {NoPermissions, AllowHostA}

InitDeny ==
  /\ Constructed
  /\ http_cache \in InitialCaches
  /\ calls = MaxCalls

NextDeny ==
  \/ \E p \in Requests, s \in DeniedSpecifiers, f \in Referrers,
        perms \in DenyingPermissions : FetchSourceFile(p, s, f, perms)
  \/ \E p \in Requests : Return(p)

SpecDeny == InitDeny /\ [][NextDeny]_vars

----------------------------------------------------------------------------
(* fetch_source_file of local files, under every configuration and over    *)
(* any disk cache                                                          *)

LocalSpecifiers == {UF, UFZ, UFH}

InitLocal ==
  /\ Constructed
  /\ http_cache \in InitialCaches
  /\ calls = MaxCalls

NextLocal ==
  \/ \E p \in Requests, s \in LocalSpecifiers, f \in Referrers,
        perms \in PermissionSets : FetchSourceFile(p, s, f, perms)
  \/ \E p \in Requests : Return(p)

SpecLocal == InitLocal /\ [][NextLocal]_vars

----------------------------------------------------------------------------
(* The entry points over servers and a disk cache whose redirect at UA     *)
(* carries a types header of its own                                       *)

RedirectTyped ==
  Redirect(Header("location", LocAbs(UC)) @@ Header("x-typescript-types", "r.d.ts"))

PlaceholderTyped ==
  Entry(<<>>, Header("location", LocAbs(UC)) @@ Header("x-typescript-types", "r.d.ts"))

StoredTyped == Entry(BodyPlain, Header("x-typescript-types", "m.d.ts"))

InitTypes ==
  /\ source_file_cache = [s \in AllSpecifiers |-> NoFile]
  /\ returned = [s \in AllSpecifiers |-> NoFile]
  /\ origin \in {Servers(RedirectTyped, RedirectBToPath, CodeShebang),
                 Servers(RedirectTyped, RedirectBToPath, CodeTs),
                 Servers(RedirectTyped, RedirectBToPath, Failing)}
  /\ config \in Configs
  /\ http_cache \in {Servers(Missing, Missing, Missing),
                     Servers(PlaceholderTyped, Missing, StoredJs),
                     Servers(PlaceholderTyped, Missing, StoredTyped)}
  /\ req = [p \in Requests |-> Idle]
  /\ calls = MaxCalls
  /\ saves = MaxSaves
  /\ restripped = [s \in AllSpecifiers |-> NoResult]
  /\ mutex = Unlocked

SpecTypes == InitTypes /\ [][Next]_vars

----------------------------------------------------------------------------
(* Redirects whose location is a path, from a url with and without a       *)
(* query: fetched over the network, then read back from the disk cache     *)

\* http://b/R/m.ts?q=1, and where set_path leads from it
UQ == Url("http", "b", <<"R", "m.ts">>, "q=1", "")
UCQ == Url("http", "b", <<"m.ts">>, "q=1", "")

ReplayUrls == {UB, UQ}

ReplayServers(c) ==
  [u \in {UB, UQ, UC} |-> IF u = UC THEN c ELSE RedirectBToPath]

\* a placeholder whose location is neither a url nor a path
PlaceholderBad == Entry(<<>>, Header("location", LocBad))

InitReplay ==
  /\ source_file_cache = [s \in AllSpecifiers |-> NoFile]
  /\ returned = [s \in AllSpecifiers |-> NoFile]
  /\ origin \in {ReplayServers(CodeJs), ReplayServers(Failing)}
  /\ config = Config(TRUE, FALSE, FALSE, <<>>)
  /\ http_cache \in {[u \in {UB, UQ, UC} |-> Missing],
                     [u \in {UB, UQ, UC} |->
                        IF u = UB THEN PlaceholderBad ELSE Missing]}
  /\ req = [p \in Requests |-> Idle]
  /\ calls = MaxSeqCalls
  /\ saves = 0
  /\ restripped = [s \in AllSpecifiers |-> NoResult]
  /\ mutex = Unlocked

NextReplay ==
  \/ \E p \in Requests, u \in ReplayUrls, d \in BOOLEAN, n \in 0..MaxLimit :
        FetchRemoteSource(p, u, d, FALSE, n, AllowAll)
  \/ \E p \in Requests, u \in ReplayUrls, n \in 0..MaxLimit :
        FetchCachedRemoteSource(p, u, n)
  \/ \E p \in Requests : FetchOnceFails(p)
  \/ \E p \in Requests : FetchOnceNotModified(p)
  \/ \E p \in Requests : FetchOnceRedirect(p)
  \/ \E p \in Requests : FetchOnceCode(p)
  \/ \E p \in Requests : Return(p)

SpecReplay == InitReplay /\ [][NextReplay]_vars

----------------------------------------------------------------------------
(* Vocabulary of the properties *)

Done(p) == req[p].pc = "done"

\* the step starts a call of `entry` by p
CallStarts(p, entry) ==
  /\ req[p].pc = "idle"
  /\ req'[p].pc # "idle"
  /\ req'[p].entry = entry

IsRemote(url) == url.scheme \in {"http", "https"}

\* the call of p went through fetch_remote_source
RemoteCall(p) ==
  \/ req[p].entry = "fetch_remote_source"
  \/ /\ req[p].entry = "fetch_source_file"
     /\ IsRemote(req[p].specifier)
     /\ req[p].inner # NoResult
     /\ ~config.no_remote

SameRecord(f, g) ==
  /\ f.url = g.url
  /\ f.source_code.bytes = g.source_code.bytes
  /\ f.media_type = g.media_type
  /\ f.types_header = g.types_header

\* A chain of cached placeholders, read off the cache entry by entry.
StoredAt(cache, url) ==
  url # NoUrl /\ HttpCacheGet(cache, url).state = "stored"

IsPlaceholder(cache, url) ==
  /\ StoredAt(cache, url)
  /\ "location" \in DOMAIN HttpCacheGet(cache, url).headers
  /\ HttpCacheGet(cache, url).headers["location"].kind \in {"abs", "path"}

IsTerminal(cache, url) ==
  /\ StoredAt(cache, url)
  /\ "location" \notin DOMAIN HttpCacheGet(cache, url).headers

\* where a location leads from a url: as it stands when absolute, else the
\* url with its path replaced
Follow(url, location) ==
  IF location.kind = "abs" THEN location.url
  ELSE [url EXCEPT !.path = location.path]

\* the url reached after k cached hops, NoUrl when the chain ends before
RECURSIVE HopUrl(_, _, _)
HopUrl(cache, url, k) ==
  IF k = 0 THEN url
  ELSE LET prev == HopUrl(cache, url, k - 1) IN
         IF IsPlaceholder(cache, prev)
         THEN Follow(prev, HttpCacheGet(cache, prev).headers["location"])
         ELSE NoUrl

\* the url reached after k redirects of the servers
RECURSIVE OriginHop(_, _)
OriginHop(url, k) ==
  IF k = 0 THEN url
  ELSE LET prev == OriginHop(url, k - 1) IN
         IF prev \in DOMAIN origin /\ origin[prev].kind = "redirect"
         THEN LET to == origin[prev].headers["location"] IN
                IF to.kind = "abs" THEN to.url
                ELSE Url(prev.scheme, prev.host, to.path, "", "")
         ELSE NoUrl

ServesCode(url) == url \in DOMAIN origin /\ origin[url].kind = "code"
ServesRedirect(url) == url \in DOMAIN origin /\ origin[url].kind = "redirect"

----------------------------------------------------------------------------
(* C1: memory-cache property *)

\* C1 as claimed: once fetch_source_file(s) has succeeded, every later
\* fetch_source_file(s) returns a record with the same url, bytes, media type
\* and types header, without invoking fetch_once or writing the HTTP cache.
C1_MemoryCacheOriginal ==
  [][\A p \in Requests :
       (/\ CallStarts(p, "fetch_source_file")
        /\ returned[req'[p].specifier] # NoFile)
       => /\ req'[p].pc = "done"
          /\ req'[p].result.tag = "file"
          /\ SameRecord(req'[p].result.file, returned[req'[p].specifier])
          /\ req'[p].fetches = 0
          /\ http_cache' = http_cache]_vars

\* C1 amended: a fetch_source_file(s) that finds s in the memory cache
\* returns the record held there at once, without invoking fetch_once or
\* touching the HTTP cache; the record held is the one the first successful
\* fetch returned, until a save_source_file_in_cache(s, _) or a
\* fetch_source_file(s) that was already under way replaces it.
C1_MemoryCacheHit ==
  [][/\ \A p \in Requests :
          (/\ CallStarts(p, "fetch_source_file")
           /\ source_file_cache[req'[p].specifier] # NoFile)
          => /\ req'[p].pc = "done"
             /\ req'[p].result = Ok(source_file_cache[req'[p].specifier])
             /\ req'[p].fetches = 0
             /\ req'[p].writes = 0
             /\ http_cache' = http_cache
             /\ source_file_cache' = source_file_cache
     /\ \A s \in Specifiers :
          (returned[s] = NoFile /\ returned'[s] # NoFile)
          => source_file_cache'[s] = returned'[s]
     /\ \A s \in Specifiers :
          (/\ source_file_cache[s] # NoFile
           /\ source_file_cache'[s] # source_file_cache[s])
          => \E p \in Requests :
               \/ /\ CallStarts(p, "save_source_file_in_cache")
                  /\ req'[p].specifier = s
               \/ /\ req[p].pc = "await"
                  /\ req[p].entry = "fetch_source_file"
                  /\ req[p].specifier = s
                  /\ req'[p].pc = "done"]_vars

\* a second fetch of a specifier is answered with the record of the first
C1_Witness ==
  \E p \in Requests :
    /\ Done(p)
    /\ req[p].entry = "fetch_source_file"
    /\ req[p].inner = NoResult
    /\ IsRemote(req[p].specifier)
    /\ req[p].result = Ok(returned[req[p].specifier])

----------------------------------------------------------------------------
(* C2: hop budget of fetch_remote_source *)

HopsFollowed(p) == req[p].net_hops + req[p].cache_hops

----------------------------------------------------------------------------
(* C3: hop budget of fetch_cached_remote_source *)

\* C3: fetch_cached_remote_source(url, N) returns the record of the terminal
\* entry when the chain of cached placeholders from url reaches it within N
\* hops, and fails with "too many redirects" when the chain has N+1 or more
\* placeholders before any missing entry, a cycle included.
C3_CachedHopBudget ==
  \A p \in Requests :
    (Done(p) /\ req[p].entry = "fetch_cached_remote_source")
    => LET r == req[p] IN
       /\ \A k \in 0..r.limit0 :
            IsTerminal(http_cache, HopUrl(http_cache, r.specifier, k))
            => /\ r.result.tag = "file"
               /\ r.result.file.url = HopUrl(http_cache, r.specifier, k)
               /\ r.result.file.source_code.bytes =
                    HttpCacheGet(http_cache,
                                 HopUrl(http_cache, r.specifier, k)).bytes
       /\ (\A k \in 0..r.limit0 :
             IsPlaceholder(http_cache, HopUrl(http_cache, r.specifier, k)))
            => r.result = Err(TooManyRedirects)

\* a chain of two cached placeholders is read with a budget of exactly two
C3_Witness ==
  \E p \in Requests :
    /\ Done(p)
    /\ req[p].entry = "fetch_cached_remote_source"
    /\ req[p].limit0 = 2
    /\ req[p].cache_hops = 2
    /\ req[p].result.tag = "file"

----------------------------------------------------------------------------
(* C4: redirect placeholder *)

\* C4: when fetch_remote_source receives Redirect(new_url, headers) for a
\* url u, the HTTP cache entry of u has empty bytes and exactly the headers
\* of the answer before the next hop is fetched, its location being the value
\* the origin wrote; after the whole fetch has succeeded the entry is still
\* there.
C4_RedirectPlaceholder ==
  [][\A p \in Requests :
       /\ (req[p].pc = "await" /\ Awaited(p).tag = "Redirect"
           /\ req'[p] # req[p])
          => LET u == req[p].module_url
                 entry == HttpCacheGet(http_cache', u)
             IN /\ entry = Entry(<<>>, Awaited(p).headers)
                /\ entry.headers["location"] = origin[u].headers["location"]
                /\ u \in req'[p].redirected
       /\ (req'[p].pc = "done" /\ req'[p].inner.tag = "file")
          => \A u \in req'[p].redirected :
               HttpCacheGet(http_cache', u) = Entry(<<>>, origin'[u].headers)
     ]_vars

\* a fetch has succeeded through a redirect whose location is only a path
C4_Witness ==
  \E p \in Requests :
    /\ Done(p)
    /\ req[p].inner.tag = "file"
    /\ UB \in req[p].redirected
    /\ HttpCacheGet(http_cache, UB).bytes = <<>>
    /\ HttpCacheGet(http_cache, UB).headers["location"] = LocPath(<<"m.ts">>)
    /\ req[p].inner.file.url = UC

----------------------------------------------------------------------------
(* C5: the entry of the final url *)

\* what is left of bytes once the first line is cut, its newline kept
RECURSIVE FromNewline(_)
FromNewline(bytes) ==
  IF bytes = <<>> \/ Head(bytes) = "\n" THEN bytes
  ELSE FromNewline(Tail(bytes))

\* C5 as claimed: after any successful remote fetch the HTTP cache entry of
\* the returned record's url has no location header and the bytes of the
\* returned record.
C5_FinalEntryOriginal ==
  \A p \in Requests :
    (Done(p) /\ RemoteCall(p) /\ req[p].result.tag = "file")
    => LET file == req[p].result.file
           entry == HttpCacheGet(http_cache, file.url)
       IN /\ entry.state = "stored"
          /\ "location" \notin DOMAIN entry.headers
          /\ entry.bytes = file.source_code.bytes

\* C5 amended: after a successful fetch_remote_source the HTTP cache entry
\* of the record's url has the bytes of the record fetch_remote_source
\* returned, and no location header unless the call fetched the payload
\* itself and the answer carried one: the headers of a Code answer are
\* stored as they came.  fetch_source_file returns a record of these bytes
\* unless they begin with "#!", and then a record of the text with its first
\* line cut, while the entry keeps the bytes as received.
C5_FinalEntry ==
  \A p \in Requests :
    (Done(p) /\ RemoteCall(p) /\ req[p].inner.tag = "file")
    => LET file == req[p].inner.file
           entry == HttpCacheGet(http_cache, file.url)
       IN /\ entry.state = "stored"
          /\ "location" \in DOMAIN entry.headers
             => /\ req[p].fetches = req[p].net_hops + 1
                /\ ~req[p].revalidated
                /\ entry.headers = origin[file.url].headers
          /\ entry.bytes = file.source_code.bytes
          /\ req[p].result.tag = "file"
             => /\ req[p].result.file.url = file.url
                /\ req[p].result.file.source_code.bytes =
                     IF /\ req[p].entry = "fetch_source_file"
                        /\ StartsWithShebang(entry.bytes)
                     THEN FromNewline(entry.bytes) ELSE entry.bytes

\* a fetched script with a shebang line: the record lacks the line, the
\* entry has it
C5_Witness ==
  \E p \in Requests :
    /\ Done(p)
    /\ req[p].entry = "fetch_source_file"
    /\ req[p].inner.tag = "file"
    /\ req[p].result.tag = "file"
    /\ req[p].writes >= 1
    /\ HttpCacheGet(http_cache, req[p].result.file.url).bytes = BodyShebang
    /\ req[p].result.file.source_code.bytes = <<"\n", "x">>

----------------------------------------------------------------------------
(* C6: scheme guard *)

Unsupported(url) == url.scheme \notin {"http", "https", "file"}

PublicEntryPoints ==
  {"fetch_source_file", "fetch_cached_source_file",
   "save_source_file_in_cache", "check_if_supported_scheme"}

\* C6 as claimed: for a url whose scheme is not http, https or file, every
\* public entry point fails with the unsupported-scheme error, in every
\* reachable state.
C6_SchemeGuardOriginal ==
  \A p \in Requests :
    (/\ Done(p)
     /\ req[p].entry \in PublicEntryPoints
     /\ Unsupported(req[p].specifier))
    => req[p].result = Err(UnsupportedScheme(req[p].specifier))

\* C6 amended: for a url whose scheme is not http, https or file,
\* check_if_supported_scheme fails with the unsupported-scheme error;
\* fetch_source_file on a memory-cache miss fails without any permission
\* check, cache access or request, with the unsupported-scheme error, or
\* with the NotFound "in cache, --cached-only is specified" error when the
\* text of the url holds "--cached-only"; save_source_file_in_cache
\* succeeds and stores the record; fetch_source_file and
\* fetch_cached_source_file return a record saved before, and
\* fetch_cached_source_file returns absent when there is none.
C6_SchemeGuard ==
  \A p \in Requests :
    (Done(p) /\ Unsupported(req[p].specifier))
    => LET r == req[p]
           s == r.specifier
           saved == source_file_cache[s]
           untouched == /\ r.net_checks = 0 /\ r.read_checks = 0
                        /\ r.reads = 0 /\ r.fetches = 0 /\ r.writes = 0
       IN /\ r.entry = "check_if_supported_scheme"
             => r.result = Err(UnsupportedScheme(s))
          /\ r.entry = "save_source_file_in_cache"
             => r.result = Unit /\ saved = InjectedFile
          /\ r.entry = "fetch_cached_source_file"
             => /\ r.result = IF saved # NoFile THEN Ok(saved) ELSE OkNone
                /\ untouched
          /\ r.entry = "fetch_source_file"
             => /\ untouched
                /\ r.result =
                     IF saved # NoFile THEN Ok(saved)
                     ELSE IF UrlSpellsCachedOnly(s)
                     THEN Err(CannotFindInCache(s, r.referrer))
                     ELSE Err(UnsupportedScheme(s))
                /\ saved = NoFile => r.inner = Err(UnsupportedScheme(s))

\* fetch_source_file has refused an ftp url
C6_Witness ==
  \E p \in Requests :
    /\ Done(p)
    /\ req[p].entry = "fetch_source_file"
    /\ req[p].specifier = UX
    /\ req[p].result = Err(UnsupportedScheme(UX))

----------------------------------------------------------------------------
(* C7: offline gate *)

Blocklisted(url) == check_cache_blocklist(url, config.cache_blocklist)

\* C7 as claimed: with cached_only, fetch_remote_source never invokes
\* fetch_once and never writes the HTTP cache; it returns the record of the
\* cached-read path (only with use_disk_cache and a url not blocklisted) or
\* fails with a NotFound error whose message holds "--cached-only".
C7_OfflineGateOriginal ==
  \A p \in Requests :
    (RemoteCall(p) /\ req[p].cached_only)
    => /\ req[p].fetches = 0
       /\ req[p].writes = 0
       /\ Done(p)
          => \/ /\ req[p].inner.tag = "file"
                /\ req[p].use_disk_cache
                /\ ~Blocklisted(req[p].specifier)
             \/ /\ req[p].inner.tag = "err"
                /\ req[p].inner.err.class = "NotFound"
                /\ MessageContainsCachedOnly(req[p].inner.err)

\* C7 amended: with cached_only, fetch_remote_source never invokes
\* fetch_once and never writes the HTTP cache.  It fails with the
\* permission error when the url is not permitted; else it returns what the
\* cached-read path gives, a record of the terminal entry of the cached
\* chain or the reader's own error (too many redirects, an unreadable entry,
\* an unparseable location), which is possible only with use_disk_cache and
\* a url not blocklisted; else it fails with the NotFound error whose
\* message holds "--cached-only".
C7_OfflineGate ==
  \A p \in Requests :
    (RemoteCall(p) /\ req[p].cached_only /\ req[p].pc # "idle")
    => LET r == req[p]
           u == r.specifier
           permitted == check_net_url(r.perms, u)
           consulted == r.use_disk_cache /\ ~Blocklisted(u)
       IN /\ r.fetches = 0
          /\ r.writes = 0
          /\ Done(p)
          /\ r.inner.tag \in {"file", "err"}
          /\ ~permitted => r.inner = Err(NetDenied(u))
          /\ r.inner.tag = "file"
             => /\ permitted /\ consulted
                /\ \E k \in 0..r.limit0 :
                     /\ IsTerminal(http_cache, HopUrl(http_cache, u, k))
                     /\ r.inner.file.url = HopUrl(http_cache, u, k)
          /\ r.inner.tag = "err"
             => \/ r.inner.err = NetDenied(u) /\ ~permitted
                \/ /\ r.inner.err \in {TooManyRedirects, CacheReadFailed,
                                       LocationParseError}
                   /\ permitted /\ consulted
                \/ /\ r.inner.err = CachedOnlyRemote(u)
                   /\ r.inner.err.class = "NotFound"
                   /\ MessageContainsCachedOnly(r.inner.err)
                   /\ permitted
          /\ (permitted /\ (~consulted \/ HttpCacheGet(http_cache, u) = Missing))
             => r.inner = Err(CachedOnlyRemote(u))

\* an offline call is served through a cached redirect
C7_Witness ==
  \E p \in Requests :
    /\ Done(p)
    /\ RemoteCall(p)
    /\ req[p].cached_only
    /\ req[p].inner.tag = "file"
    /\ req[p].cache_hops >= 1

----------------------------------------------------------------------------
(* C8: no_remote gate *)

\* C8: with no_remote configured, a fetch of an http or https specifier
\* that is not in the memory cache fails with the I/O NotFound error "Not
\* allowed to get remote file", without a call of check_net_url, without a
\* read or write of the HTTP cache and without a request, whatever the disk
\* cache holds; fetch_source_file hands the failure on as NotFound.
C8_NoRemoteGate ==
  \A p \in Requests :
    (/\ req[p].entry = "fetch_source_file"
     /\ config.no_remote
     /\ IsRemote(req[p].specifier))
    => LET r == req[p] IN
       /\ r.pc # "await"
       /\ (Done(p) /\ r.inner # NoResult)
          => /\ r.inner = Err(NotAllowedRemote(r.specifier))
             /\ r.inner.err.class = "Io" /\ r.inner.err.iokind = "NotFound"
             /\ r.result.tag = "err" /\ r.result.err.class = "NotFound"
             /\ r.net_checks = 0
             /\ r.reads = 0
             /\ r.writes = 0
             /\ r.fetches = 0
             /\ source_file_cache[r.specifier] = NoFile

\* the fetch is refused although the disk cache holds the whole module
C8_Witness ==
  \E p \in Requests :
    /\ Done(p)
    /\ req[p].entry = "fetch_source_file"
    /\ config.no_remote
    /\ req[p].specifier = UA
    /\ req[p].perms = AllowAll
    /\ req[p].inner = Err(NotAllowedRemote(UA))
    /\ IsTerminal(http_cache, HopUrl(http_cache, UA, 2))

----------------------------------------------------------------------------
(* C9: the read-only entry point *)

\* C9 as claimed: fetch_cached_source_file never invokes fetch_once and
\* leaves the memory cache and the HTTP cache unchanged; on a memory-cache
\* miss for a remote specifier it returns exactly what the cached reader
\* yields with hop budget 10.
C9_ReadOnlyOriginal ==
  [][\A p \in Requests :
       CallStarts(p, "fetch_cached_source_file")
       => LET s == req'[p].specifier IN
          /\ req'[p].pc = "done"
          /\ req'[p].fetches = 0
          /\ source_file_cache' = source_file_cache
          /\ http_cache' = http_cache
          /\ (source_file_cache[s] = NoFile /\ IsRemote(s))
             => req'[p].result =
                  fetch_cached_remote_source(http_cache, s, RedirectLimit).result]_vars

\* C9 amended: fetch_cached_source_file never invokes fetch_once and leaves
\* the memory cache and the HTTP cache unchanged; on a memory-cache miss for
\* a remote specifier it returns the record the cached reader yields with
\* hop budget 10, and absent when the reader yields none or fails.
C9_ReadOnly ==
  [][\A p \in Requests :
       CallStarts(p, "fetch_cached_source_file")
       => LET s == req'[p].specifier
              yields == fetch_cached_remote_source(http_cache, s, RedirectLimit).result
          IN /\ req'[p].pc = "done"
             /\ req'[p].fetches = 0
             /\ req'[p].writes = 0
             /\ source_file_cache' = source_file_cache
             /\ http_cache' = http_cache
             /\ source_file_cache[s] # NoFile
                => req'[p].result = Ok(source_file_cache[s])
             /\ (source_file_cache[s] = NoFile /\ IsRemote(s))
                => /\ req'[p].result =
                        IF yields.tag = "file" THEN yields ELSE OkNone
                   /\ \A k \in 0..RedirectLimit :
                        IsTerminal(http_cache, HopUrl(http_cache, s, k))
                        => /\ req'[p].result.tag = "file"
                           /\ req'[p].result.file.url =
                                HopUrl(http_cache, s, k)]_vars

\* a record is read from the disk cache through cached redirects
C9_Witness ==
  \E p \in Requests :
    /\ Done(p)
    /\ req[p].entry = "fetch_cached_source_file"
    /\ source_file_cache[req[p].specifier] = NoFile
    /\ req[p].result.tag = "file"
    /\ req[p].cache_hops = 2

----------------------------------------------------------------------------
(* C10: the conditional request *)

\* the etag header of the entry stored for a url, "" when there is none
StoredEtag(cache, url) ==
  LET entry == HttpCacheGet(cache, url) IN
    IF entry.state = "stored" /\ "etag" \in DOMAIN entry.headers
    THEN entry.headers["etag"] ELSE ""

\* C10: whenever fetch_remote_source invokes fetch_once for a url, the etag
\* it passes is the etag header of the HTTP cache entry stored for the url
\* at that moment, and none when there is no entry, the entry has no etag or
\* the cache read fails; so it is also when use_disk_cache is false and when
\* the url is blocklisted.
C10_ConditionalRequest ==
  [][\A p \in Requests :
       (req'[p].pc = "await" /\ req'[p] # req[p])
       => /\ req'[p].module_etag =
               StoredEtag(http_cache', req'[p].module_url)
          /\ req'[p].fetches = req[p].fetches + 1]_vars

\* a request carries the etag of a cached entry the call itself did not
\* read: the url is blocklisted
C10_Witness ==
  \E p \in Requests :
    /\ req[p].pc = "await"
    /\ req[p].module_etag = "E1"
    /\ req[p].use_disk_cache
    /\ Blocklisted(req[p].module_url)

----------------------------------------------------------------------------
(* C11: revalidation hit *)

\* C11: when fetch_once answers NotModified for a url u, fetch_remote_source
\* returns the record of the terminal entry the cached chain from u reaches,
\* its bytes being the bytes the HTTP cache holds for that entry now,
\* whatever the origin would have served, and the answer leaves every entry
\* of the HTTP cache as it was.
C11_RevalidationHit ==
  [][\A p \in Requests :
       (req[p].pc = "await" /\ Awaited(p).tag = "NotModified"
        /\ req'[p] # req[p])
       => LET u == req[p].module_url IN
          /\ http_cache' = http_cache
          /\ req'[p].writes = req[p].writes
          /\ req'[p].fetches = req[p].fetches
          /\ req'[p].pc = "done"
          /\ \A k \in 0..RedirectLimit :
               IsTerminal(http_cache, HopUrl(http_cache, u, k))
               => /\ req'[p].inner.tag = "file"
                  /\ req'[p].inner.file.url = HopUrl(http_cache, u, k)
                  /\ req'[p].inner.file.source_code.bytes =
                       HttpCacheGet(http_cache, HopUrl(http_cache, u, k)).bytes
          /\ req'[p].inner.tag = "file"
             => \E k \in 0..RedirectLimit :
                  /\ IsTerminal(http_cache, HopUrl(http_cache, u, k))
                  /\ req'[p].inner.file.url = HopUrl(http_cache, u, k)]_vars

\* a body altered on disk is returned as it is, the origin serving another
C11_Witness ==
  \E p \in Requests :
    /\ Done(p)
    /\ req[p].revalidated
    /\ req[p].writes = 0
    /\ req[p].inner.tag = "file"
    /\ req[p].inner.file.source_code.bytes = BodyChanged
    /\ origin[req[p].inner.file.url].bytes = BodyPlain

----------------------------------------------------------------------------
(* C12: disk-cache hit *)

\* the step enters fetch_remote_source for req'[p].module_url with the
\* budget req'[p].redirect_limit: at the start of a call or after a redirect
EntersRemote(p) ==
  \/ /\ req[p].pc = "idle"
     /\ req'[p].pc # "idle"
     /\ \/ req'[p].entry = "fetch_remote_source"
        \/ /\ req'[p].entry = "fetch_source_file"
           /\ IsRemote(req'[p].specifier)
           /\ source_file_cache[req'[p].specifier] = NoFile
           /\ ~config.no_remote
  \/ /\ req[p].pc = "await"
     /\ Awaited(p).tag = "Redirect"
     /\ req'[p] # req[p]

\* the cached chain from req'[p].module_url reaches a terminal entry within
\* the budget, in the cache as fetch_remote_source finds it
CachedWithinBudget(p, k) ==
  /\ k \in 0..req'[p].redirect_limit
  /\ IsTerminal(http_cache', HopUrl(http_cache', req'[p].module_url, k))

\* the record of the disk-cache hit: url, bytes and media type of the
\* terminal entry, no request made, nothing written for the url
ServedFromDisk(p, k) ==
  LET final == HopUrl(http_cache', req'[p].module_url, k)
      entry == HttpCacheGet(http_cache', final)
      file == req'[p].inner.file
  IN /\ req'[p].pc = "done"
     /\ req'[p].inner.tag = "file"
     /\ file.url = final
     /\ file.source_code.bytes = entry.bytes
     /\ file.media_type =
          map_content_type(final.path,
                           HeaderOr(entry.headers, "content-type", <<>>)
                          ).media_type
     /\ req'[p].fetches = req[p].fetches
     /\ req'[p].writes = req'[p].net_hops
     /\ req[p].pc = "idle" => http_cache' = http_cache

\* C12 as claimed: with use_disk_cache and a url not blocklisted whose cached
\* chain reaches a terminal entry within the hop budget, the fetch returns a
\* record of the cached bytes, its media type classified from the cached
\* content type, without invoking fetch_once and without writing the HTTP
\* cache, also when the url is the target of another url's redirect.
C12_DiskCacheHitOriginal ==
  [][\A p \in Requests :
       \A k \in 0..RedirectLimit :
         (/\ EntersRemote(p)
          /\ req'[p].use_disk_cache
          /\ ~Blocklisted(req'[p].module_url)
          /\ CachedWithinBudget(p, k))
         => ServedFromDisk(p, k)]_vars

\* C12 amended: the same, for a url that check_net_url permits; a url it
\* refuses fails with the permission error before the cache is read.
C12_DiskCacheHit ==
  [][\A p \in Requests :
       \A k \in 0..RedirectLimit :
         (/\ EntersRemote(p)
          /\ req'[p].use_disk_cache
          /\ ~Blocklisted(req'[p].module_url)
          /\ CachedWithinBudget(p, k))
         => IF check_net_url(req'[p].perms, req'[p].module_url)
            THEN ServedFromDisk(p, k)
            ELSE /\ req'[p].pc = "done"
                 /\ req'[p].inner = Err(NetDenied(req'[p].module_url))
                 /\ req'[p].reads = req[p].reads]_vars

\* the target of a network redirect is served from the disk cache, as
\* JavaScript by its cached content type where the origin serves TypeScript
C12_Witness ==
  \E p \in Requests :
    /\ Done(p)
    /\ req[p].use_disk_cache
    /\ req[p].net_hops = 1
    /\ req[p].fetches = 1
    /\ req[p].cache_hops = 1
    /\ req[p].inner.tag = "file"
    /\ req[p].inner.file.url = UC
    /\ req[p].inner.file.media_type = "JavaScript"
    /\ req[p].inner.file.source_code.bytes = BodyChanged
    /\ origin[UC] = CodeTs

----------------------------------------------------------------------------
(* C13: the origin is authoritative without the disk cache *)

----------------------------------------------------------------------------
(* C14: the final url *)

\* the call of p read or fetched a remote module and returned a record
RemoteRecord(p) ==
  /\ Done(p)
  /\ req[p].inner.tag = "file"
  /\ \/ RemoteCall(p)
     \/ req[p].entry = "fetch_cached_remote_source"
     \/ /\ req[p].entry = "fetch_cached_source_file"
        /\ IsRemote(req[p].specifier)

\* the record came out of the cached reader, not out of a Code answer
FromCachedReader(p) ==
  \/ req[p].entry \in {"fetch_cached_remote_source", "fetch_cached_source_file"}
  \/ req[p].revalidated
  \/ req[p].fetches = req[p].net_hops

\* C14: every record returned by the remote paths (a Code answer, the cached
\* reader, the reconstruction after NotModified) has the url of the hop that
\* bears the bytes, reached from the requested url by the redirects of the
\* origin and then the placeholders of the cache, never the url of a
\* redirecting hop; after a chain of redirects it differs from the requested
\* url.
C14_FinalUrl ==
  \A p \in Requests :
    RemoteRecord(p)
    => LET r == req[p]
           file == r.inner.file
           net_end == OriginHop(r.specifier, r.net_hops)
           entry == HttpCacheGet(http_cache, file.url)
       IN /\ file.url = HopUrl(http_cache, net_end, r.cache_hops)
          /\ file.url \notin r.redirected
          /\ entry.state = "stored"
          /\ entry.bytes = file.source_code.bytes
          /\ IF FromCachedReader(p)
             THEN IsTerminal(http_cache, file.url)
             ELSE /\ ServesCode(file.url)
                  /\ r.cache_hops = 0
          /\ \A k \in 0..(r.net_hops - 1) :
               ServesRedirect(OriginHop(r.specifier, k))
          /\ \A k \in 0..(r.cache_hops - 1) :
               IsPlaceholder(http_cache, HopUrl(http_cache, net_end, k))
          /\ HopsFollowed(p) >= 1 => file.url # r.specifier

\* a record reached by a network redirect and then a cached one has the
\* url of the entry that holds the bytes
C14_Witness ==
  \E p \in Requests :
    /\ RemoteRecord(p)
    /\ req[p].specifier = UA
    /\ req[p].net_hops = 1
    /\ req[p].cache_hops = 1
    /\ req[p].inner.file.url = UC

----------------------------------------------------------------------------
(* C15: memory-cache lifecycle *)

\* the step completes a fetch_source_file of p that went to its fetch path
\* and returns a record
FetchSucceeds(p) ==
  /\ req[p].pc # "done"
  /\ req'[p].pc = "done"
  /\ req'[p].entry = "fetch_source_file"
  /\ req'[p].inner # NoResult
  /\ req'[p].result.tag = "file"

\* the step is a save_source_file_in_cache under the key s
SaveStep(s) ==
  \E p \in Requests :
    /\ CallStarts(p, "save_source_file_in_cache")
    /\ req'[p].specifier = s

\* a successful fetch_source_file(s) inserts its record under s and under no
\* other key, the final url of a redirect included
InsertedUnderSpecifier ==
  \A p \in Requests :
    FetchSucceeds(p)
    => source_file_cache' =
         [source_file_cache EXCEPT ![req'[p].specifier] = req'[p].result.file]

\* C15 as claimed: a successful fetch_source_file(s) inserts the record
\* under the key s only, and once a key maps to a record every later state
\* maps it to that same record.
C15_LifecycleOriginal ==
  [][/\ InsertedUnderSpecifier
     /\ \A s \in Specifiers :
          source_file_cache[s] # NoFile
          => source_file_cache'[s] = source_file_cache[s]]_vars

\* C15 amended: a successful fetch_source_file(s) inserts the record under
\* the key s only; a key that maps to a record is never evicted, and its
\* record is replaced only by save_source_file_in_cache under that key or by
\* a fetch_source_file of that key completing; nothing else writes the
\* memory cache.
C15_Lifecycle ==
  [][/\ InsertedUnderSpecifier
     /\ \A s \in Specifiers :
          /\ source_file_cache[s] # NoFile => source_file_cache'[s] # NoFile
          /\ source_file_cache'[s] # source_file_cache[s]
             => \/ /\ SaveStep(s)
                   /\ source_file_cache'[s] = InjectedFile
                \/ \E p \in Requests :
                     FetchSucceeds(p) /\ req'[p].specifier = s]_vars

\* a record fetched through redirects is kept under the specifier, not
\* under its final url
C15_Witness ==
  \E p \in Requests :
    /\ Done(p)
    /\ req[p].entry = "fetch_source_file"
    /\ req[p].specifier = UA
    /\ req[p].result.tag = "file"
    /\ req[p].result.file.url = UC
    /\ source_file_cache[UA] = req[p].result.file
    /\ source_file_cache[UC] = NoFile

----------------------------------------------------------------------------
(* C16, C17: the shebang step *)

\* a call of fetch_source_file that has a fetched record in hand
Fetched(p) ==
  /\ Done(p)
  /\ req[p].entry = "fetch_source_file"
  /\ req[p].inner.tag = "file"

FetchedBytes(p) == req[p].inner.file.source_code.bytes

BeginsWithShebang(bytes) ==
  Len(bytes) >= 2 /\ bytes[1] = "#" /\ bytes[2] = "!"

\* the text from its first newline onward, nothing when it has none
FromFirstNewline(text) ==
  IF \A i \in 1..Len(text) : text[i] # "\n"
  THEN <<>>
  ELSE LET first == CHOOSE i \in 1..Len(text) :
                      /\ text[i] = "\n"
                      /\ \A j \in 1..(i - 1) : text[j] # "\n"
       IN [k \in 1..(Len(text) - first + 1) |-> text[first + k - 1]]

\* C16: when the fetched bytes begin with "#!" and decode, the record
\* fetch_source_file returns, which is the record it stores in the memory
\* cache, carries the decoded text from the first newline onward, newline
\* kept, or nothing when there is no newline; bytes that do not begin with
\* "#!" are returned and stored unchanged.
C16_ShebangStrip ==
  \A p \in Requests :
    Fetched(p) =>
      LET decoded == to_str(req[p].inner.file.source_code)
          result == req[p].result
      IN IF BeginsWithShebang(FetchedBytes(p))
         THEN decoded.ok =>
                /\ result.tag = "file"
                /\ result.file.source_code.bytes = FromFirstNewline(decoded.text)
                /\ source_file_cache[req[p].specifier] = result.file
         ELSE /\ result = req[p].inner
              /\ source_file_cache[req[p].specifier] = req[p].inner.file

\* a shebang line followed by more text was fetched, and its rest returned
C16_Witness ==
  \E p \in Requests :
    /\ Fetched(p)
    /\ BeginsWithShebang(FetchedBytes(p))
    /\ req[p].result.tag = "file"
    /\ Len(req[p].result.file.source_code.bytes) = 2
    /\ req[p].result.file.source_code.bytes[1] = "\n"
    /\ source_file_cache[req[p].specifier] = req[p].result.file

\* C17: the shebang step is idempotent: applied to the record it produced,
\* it yields a record, and that record has the same bytes.
C17_StripIdempotent ==
  \A s \in Specifiers :
    restripped[s] # NoResult =>
      /\ restripped[s].tag = "file"
      /\ restripped[s].file.source_code.bytes
           = source_file_cache[s].source_code.bytes

\* the step was applied again to what it had cut from a shebang line
C17_Witness ==
  \E s \in RemoteUrls :
    /\ restripped[s].tag = "file"
    /\ origin[s].kind = "code"
    /\ BeginsWithShebang(origin[s].bytes)
    /\ Len(origin[s].bytes) > Len(source_file_cache[s].source_code.bytes)
    /\ Len(restripped[s].file.source_code.bytes) > 0

----------------------------------------------------------------------------
(* C18, C19, C20: the blocklist matcher *)

\* a call of check_cache_blocklist has answered
Checked(p) == Done(p) /\ req[p].entry = "check_cache_blocklist"

IsBlocked(p) == req[p].result.value

\* the entries of the fetcher's blocklist
Listed == {config.cache_blocklist[i] : i \in 1..Len(config.cache_blocklist)}

\* the url as a string, its fragment removed
FragmentStripped(url) == as_str(clear_fragment(url))

\* the url as a string, its fragment and its query removed
Bare(url) == as_str(clear_query(clear_fragment(url)))

\* the entry has neither a query nor a fragment, and no '/' ends it
IsPlainEntry(entry) ==
  /\ entry.query = "" /\ entry.fragment = ""
  /\ entry.parts # <<>> /\ entry.parts[Len(entry.parts)] # ""

\* `parts` begins with all of `prefix`, which ends where a segment ends
IsSegmentPrefix(prefix, parts) ==
  /\ Len(prefix) <= Len(parts)
  /\ \A i \in 1..Len(prefix) : prefix[i] = parts[i]

\* the segments of `parts` up to its last one that is not empty
RECURSIVE LastSegmentAt(_)
LastSegmentAt(parts) ==
  IF parts = <<>> \/ parts[Len(parts)] # "" THEN Len(parts)
  ELSE LastSegmentAt(SubSeq(parts, 1, Len(parts) - 1))

\* the claim as stated: a plain entry blocks every url whose bare form it
\* equals or begins by whole segments, and nothing else is blocked
C18_PrefixMatchOriginal ==
  \A p \in Requests :
    Checked(p) =>
      LET url == req[p].specifier IN
        /\ (\E entry \in Listed :
              /\ IsPlainEntry(entry)
              /\ IsSegmentPrefix(entry.parts, Bare(url).parts))
           => IsBlocked(p)
        /\ (\A entry \in Listed :
              /\ entry # FragmentStripped(url)
              /\ ~(/\ entry.query = "" /\ entry.fragment = ""
                   /\ IsSegmentPrefix(entry.parts, Bare(url).parts)))
           => ~IsBlocked(p)

\* C18: a url is blocked exactly when an entry equals it with its fragment
\* removed, or equals it with query and fragment removed, or is a plain
\* entry that spells a whole-segment prefix of that bare form ending
\* before its last non-empty segment; a url that is a plain entry followed
\* by nothing but '/' is not blocked by that entry.
C18_PrefixMatch ==
  \A p \in Requests :
    Checked(p) =>
      LET url == req[p].specifier
          bare == Bare(url).parts
      IN IsBlocked(p) <=>
           \E entry \in Listed :
             \/ entry = FragmentStripped(url)
             \/ entry = Bare(url)
             \/ /\ IsPlainEntry(entry)
                /\ IsSegmentPrefix(entry.parts, bare)
                /\ Len(entry.parts) < LastSegmentAt(bare)

\* an entry blocked a url beneath it that has a query and a fragment
C18_Witness ==
  \E p \in Requests :
    /\ Checked(p)
    /\ IsBlocked(p)
    /\ req[p].specifier.query # "" /\ req[p].specifier.fragment # ""
    /\ \E entry \in Listed :
         /\ IsPlainEntry(entry)
         /\ Len(entry.parts) < Len(Bare(req[p].specifier).parts)
         /\ IsSegmentPrefix(entry.parts, Bare(req[p].specifier).parts)

\* C19: an entry that carries a query matches a url exactly when the url
\* with its fragment removed equals the entry: a blocklist of such entries
\* blocks that url whatever its fragment, and blocks neither the same path
\* without a query nor the same path with another query.
C19_QueryEntries ==
  \A p \in Requests :
    (Checked(p) /\ \A entry \in Listed : entry.query # "") =>
      (IsBlocked(p) <=> FragmentStripped(req[p].specifier) \in Listed)

\* an entry with a query blocked its url given with a fragment
C19_Witness ==
  \E p \in Requests :
    /\ Checked(p)
    /\ IsBlocked(p)
    /\ req[p].specifier.fragment # ""
    /\ Listed # {}
    /\ \A entry \in Listed : entry.query # ""

\* the blocklist is one entry, given as a url with a fragment and no
\* query and kept without the fragment, and the call is for its path
FragmentEntryFor(p) ==
  \E given \in BlockUrls :
    /\ given.fragment # "" /\ given.query = ""
    /\ config.cache_blocklist = <<as_str(clear_fragment(given))>>
    /\ Bare(req[p].specifier) = Bare(given)

\* the claim as stated: such an entry matches its path with or without
\* the fragment, and does not match it once a query is added
C20_FragmentEntriesOriginal ==
  \A p \in Requests :
    (Checked(p) /\ FragmentEntryFor(p)) =>
      (IsBlocked(p) <=> req[p].specifier.query = "")

\* C20: an entry given with only a fragment matches every url on its path,
\* whatever the url's fragment and whether or not it has a query.
C20_FragmentEntries ==
  \A p \in Requests :
    (Checked(p) /\ FragmentEntryFor(p)) => IsBlocked(p)

\* such an entry blocked a url on its path that has a query and a fragment
C20_Witness ==
  \E p \in Requests :
    /\ Checked(p)
    /\ FragmentEntryFor(p)
    /\ IsBlocked(p)
    /\ req[p].specifier.query # ""
    /\ req[p].specifier.fragment # ""

----------------------------------------------------------------------------
(* C21: blocklist bypass *)

\* the step left the call at fetch_once, asked for req'[p].module_url
InvokesFetchOnce(p) ==
  /\ req'[p].pc = "await"
  /\ req'[p].fetches = req[p].fetches + 1

\* the step ended the call with the cached-only error for its url
FailsCachedOnly(p) ==
  /\ req'[p].pc = "done"
  /\ req'[p].cached_only
  /\ req'[p].inner = Err(CachedOnlyRemote(req'[p].module_url))

\* C21 as claimed: an entry of fetch_remote_source for a blocklisted url
\* returns no record; it fails with the cached-only error or invokes
\* fetch_once for the url.
C21_BlocklistBypassOriginal ==
  [][\A p \in Requests :
       (EntersRemote(p) /\ Blocklisted(req'[p].module_url))
       => FailsCachedOnly(p) \/ InvokesFetchOnce(p)]_vars

\* C21 amended: an entry of fetch_remote_source for a blocklisted url
\* returns no record and reads no entry for one, whatever the disk cache
\* holds.  With the budget spent it fails with the redirect error; else
\* with a url check_net_url refuses it fails with the permission error;
\* else it fails with the cached-only error when cached_only is set, and
\* invokes fetch_once for the url when it is not.
C21_BlocklistBypass ==
  [][\A p \in Requests :
       (EntersRemote(p) /\ Blocklisted(req'[p].module_url))
       => LET r == req'[p]
              u == r.module_url
          IN /\ r.pc = "done" => r.inner.tag = "err"
             /\ r.cache_hops = 0
             /\ IF r.redirect_limit < 0
                THEN r.pc = "done" /\ r.inner = Err(TooManyRedirects)
                ELSE IF ~check_net_url(r.perms, u)
                THEN r.pc = "done" /\ r.inner = Err(NetDenied(u))
                ELSE IF r.cached_only
                THEN FailsCachedOnly(p) /\ r.reads = req[p].reads
                ELSE /\ InvokesFetchOnce(p)
                     /\ r.reads = req[p].reads + 1]_vars

\* a blocklisted url with a complete cached entry is asked of the server
C21_Witness ==
  \E p \in Requests :
    /\ req[p].pc = "await"
    /\ req[p].use_disk_cache
    /\ Blocklisted(req[p].module_url)
    /\ IsTerminal(http_cache, req[p].module_url)
    /\ req[p].cache_hops = 0

----------------------------------------------------------------------------
(* C22, C23: the classifier *)

\* a call of map_content_type has answered
Classified(p) == Done(p) /\ req[p].entry = "map_content_type"

\* the extension of the path the call was given
GivenExt(p) == path_extension(req[p].result.path)

\* the media type of the header the call was given, in lower case, "none"
\* when it was given no header
GivenType(p) ==
  IF req[p].result.content_type = <<>> THEN "none"
  ELSE to_lowercase(req[p].result.content_type[1])

JavaScriptClass ==
  {"application/javascript", "text/javascript", "application/ecmascript",
   "text/ecmascript", "application/x-javascript", "application/node"}

TypeScriptClass ==
  {"application/typescript", "text/typescript", "video/vnd.dlna.mpeg-tts",
   "video/mp2t", "application/x-typescript"}

\* C22 as claimed: under a JavaScript-class header the result is JSX for
\* jsx, TSX for tsx, TypeScript for ts and JavaScript otherwise.
C22_JavaScriptClassOriginal ==
  \A p \in Requests :
    (Classified(p) /\ GivenType(p) \in JavaScriptClass) =>
      req[p].result.media_type =
        CASE GivenExt(p) = "jsx" -> "JSX"
          [] GivenExt(p) = "tsx" -> "TSX"
          [] GivenExt(p) = "ts" -> "TypeScript"
          [] OTHER -> "JavaScript"

\* C22 amended: under a JavaScript-class header the result is JSX for jsx,
\* TSX for tsx and JavaScript for every other extension, ts among them,
\* and for none.
C22_JavaScriptClass ==
  \A p \in Requests :
    (Classified(p) /\ GivenType(p) \in JavaScriptClass) =>
      req[p].result.media_type =
        CASE GivenExt(p) = "jsx" -> "JSX"
          [] GivenExt(p) = "tsx" -> "TSX"
          [] OTHER -> "JavaScript"

\* a path that ends in .jsx was classified under a JavaScript header
C22_Witness ==
  \E p \in Requests :
    /\ Classified(p)
    /\ GivenType(p) = "text/javascript"
    /\ GivenExt(p) = "jsx"
    /\ req[p].result.media_type = "JSX"

ListedTypes ==
  TypeScriptClass \cup JavaScriptClass
  \cup {"application/json", "text/json", "application/wasm", "text/plain",
        "application/octet-stream"}

\* C23: under a TypeScript-class or a JavaScript-class header the result
\* is TSX for tsx and JSX for jsx, whichever the class; under text/plain
\* and application/octet-stream it is the media type of the extension
\* alone; under a header that is not listed it is Unknown, whatever the
\* extension.
C23_ExtensionAuthoritative ==
  \A p \in Requests :
    Classified(p) =>
      LET out == req[p].result.media_type IN
        /\ GivenType(p) \in TypeScriptClass \cup JavaScriptClass
           => /\ GivenExt(p) = "tsx" => out = "TSX"
              /\ GivenExt(p) = "jsx" => out = "JSX"
        /\ GivenType(p) \in {"text/plain", "application/octet-stream"}
           => out = MediaTypeFromPath(req[p].result.path)
        /\ GivenType(p) \notin ListedTypes \cup {"none"} => out = "Unknown"

\* a path that ends in .tsx was classified under a header not listed
C23_Witness ==
  \E p \in Requests :
    /\ Classified(p)
    /\ GivenType(p) = "text/html"
    /\ GivenExt(p) = "tsx"
    /\ req[p].result.media_type = "Unknown"

----------------------------------------------------------------------------
(* C24: the media type of a fetched record *)

\* the call has built a record on one of the fetch paths
BuiltRecord(p) == Done(p) /\ req[p].inner.tag = "file"

\* the content type kept with the bytes the record was built from: the
\* header of the HTTP cache entry of its url, none for a local file
ContentTypeOf(file) ==
  IF file.filename.dir = "fs" THEN <<>>
  ELSE HeaderOr(HttpCacheGet(http_cache, file.url).headers, "content-type",
                <<>>)

\* HttpCache::get_cache_filename is outside src/: the file it names may
\* bear the last segment of the url, or a digest of the url and no extension
CacheNamings == {"segment", "digest"}

\* the path record.filename spells
FilenamePath(naming, filename) ==
  IF filename.dir = "fs" \/ naming = "segment"
  THEN filename.name.path ELSE <<"digest">>

\* C24 as claimed: the media type of a fetched record is the classification
\* of record.filename and the content type, whatever names the cache gives.
C24_MediaTypeOriginal ==
  \A p \in Requests, naming \in CacheNamings :
    BuiltRecord(p) =>
      LET file == req[p].inner.file IN
        file.media_type =
          map_content_type(FilenamePath(naming, file.filename),
                           ContentTypeOf(file)).media_type

\* C24 amended: the media type of a record built by a fetch is the
\* classification of the path of record.url, for a local record its file
\* path, and the content type kept with the bytes it was built from;
\* fetch_source_file returns the record with that media type.
C24_MediaType ==
  \A p \in Requests :
    BuiltRecord(p) =>
      LET file == req[p].inner.file IN
        /\ file.media_type =
             map_content_type(file.url.path, ContentTypeOf(file)).media_type
        /\ req[p].result.tag = "file"
           => req[p].result.file.media_type = file.media_type

\* a record read back from the disk cache, stored without a content type,
\* is TypeScript by the path of its url
C24_Witness ==
  \E p \in Requests :
    /\ BuiltRecord(p)
    /\ req[p].fetches = 0
    /\ IsRemote(req[p].inner.file.url)
    /\ ContentTypeOf(req[p].inner.file) = <<>>
    /\ req[p].inner.file.media_type = "TypeScript"

----------------------------------------------------------------------------
(* C25, C26: the errors of fetch_source_file *)

\* a call of fetch_source_file whose fetch path failed with `err`
FailedWith(p) ==
  /\ Done(p)
  /\ req[p].entry = "fetch_source_file"
  /\ req[p].inner.tag = "err"

\* the NotFound error with the given message for the specifier of p; its
\* referrer is NoUrl, and the message has no " from" clause, exactly when
\* no referrer was passed
Enriched(p, msg) ==
  Err([class |-> "NotFound", iokind |-> "", msg |-> msg,
       url |-> req[p].specifier, referrer |-> req[p].referrer])

\* C25: a failure whose message holds "--cached-only" is returned as the
\* NotFound error "Cannot find module ... in cache, --cached-only is
\* specified"; else one whose cause is an I/O NotFound is returned as the
\* NotFound error "Cannot resolve module ..."; both name the specifier,
\* and the referrer exactly when one was passed; every other failure is
\* returned as it is.
C25_ErrorEnrichment ==
  \A p \in Requests :
    FailedWith(p) =>
      LET err == req[p].inner.err IN
        req[p].result =
          IF MessageContainsCachedOnly(err)
          THEN Enriched(p, "Cannot find module in cache, --cached-only is specified")
          ELSE IF err.class = "Io" /\ err.iokind = "NotFound"
          THEN Enriched(p, "Cannot resolve module")
          ELSE req[p].inner

\* the cached-only failure of a call that passed a referrer
C25_Witness ==
  \E p \in Requests :
    /\ FailedWith(p)
    /\ req[p].inner.err = CachedOnlyRemote(req[p].specifier)
    /\ req[p].referrer = UF
    /\ req[p].result.err.msg =
         "Cannot find module in cache, --cached-only is specified"
    /\ req[p].result.err.referrer = UF

\* the fetch path failed with the denial of check_read or check_net_url
Denied(p) ==
  /\ FailedWith(p)
  /\ req[p].inner.err.class = "PermissionDenied"

\* the claim as stated: a denial is returned as it is, also for a url
\* whose text holds "--cached-only"
C26_DenialVerbatimOriginal ==
  \A p \in Requests : Denied(p) => req[p].result = req[p].inner

\* C26: a denial is returned as it is unless the text of the url it names
\* holds "--cached-only"; then the NotFound error "Cannot find module ...
\* in cache, --cached-only is specified" is returned in its place.
C26_DenialVerbatim ==
  \A p \in Requests :
    Denied(p) =>
      /\ req[p].inner.err \in {NetDenied(req[p].module_url),
                                ReadDenied(req[p].module_url)}
      /\ req[p].result =
           IF UrlSpellsCachedOnly(req[p].module_url)
           THEN Enriched(p, "Cannot find module in cache, --cached-only is specified")
           ELSE req[p].inner

\* a denial was returned as it is
C26_Witness ==
  \E p \in Requests :
    /\ Denied(p)
    /\ req[p].result = Err(NetDenied(UC))

----------------------------------------------------------------------------
(* C27: the permission gate of every hop *)

\* the call of p goes through fetch_remote_source after the step
InRemote(p) ==
  /\ req'[p].pc # "idle"
  /\ \/ req'[p].entry = "fetch_remote_source"
     \/ req'[p].entry = "fetch_source_file" /\ IsRemote(req'[p].specifier)

\* what the call had counted before the step
Before(p, counter) == IF req[p].pc = "idle" THEN 0 ELSE req[p][counter]

\* the hop the call is at after the step passed check_net_url
HopPermitted(p) == check_net_url(req'[p].perms, req'[p].module_url)

\* C27: fetch_once is invoked, and the HTTP cache read or written by
\* fetch_remote_source, only at a hop whose url check_net_url has allowed
\* under the permissions of the call; an entry of fetch_remote_source for a
\* url it refuses ends the fetch with the denial, without a request and
\* without a read of the cache.
C27_PermissionGate ==
  [][\A p \in Requests :
       /\ (InRemote(p) /\ req'[p].fetches > Before(p, "fetches"))
          => /\ HopPermitted(p)
             /\ req'[p].pc = "await"
       /\ (InRemote(p) /\ req'[p].reads > Before(p, "reads"))
          => HopPermitted(p)
       /\ (InRemote(p) /\ req'[p].writes > Before(p, "writes"))
          => /\ req[p].pc = "await"
             /\ check_net_url(req[p].perms, req[p].module_url)
             /\ req'[p].perms = req[p].perms
             /\ \A u \in DOMAIN http_cache' :
                  u # CacheKey(req[p].module_url)
                  => HttpCacheGet(http_cache', u) = HttpCacheGet(http_cache, u)
       /\ (EntersRemote(p) /\ req'[p].redirect_limit >= 0 /\ ~HopPermitted(p))
          => /\ req'[p].pc = "done"
             /\ req'[p].inner = Err(NetDenied(req'[p].module_url))
             /\ req'[p].fetches = Before(p, "fetches")
             /\ req'[p].reads = Before(p, "reads")]_vars

\* the target of a redirect is refused after the requested url was fetched
C27_Witness ==
  \E p \in Requests :
    /\ Done(p)
    /\ req[p].net_hops = 1
    /\ req[p].fetches = 1
    /\ req[p].writes = 1
    /\ check_net_url(req[p].perms, req[p].specifier)
    /\ req[p].inner = Err(NetDenied(req[p].module_url))

----------------------------------------------------------------------------
(* C28: permissions and the caches *)

\* the permissions of the call refuse its specifier
DeniesSpecifier(p) ==
  IF IsRemote(req[p].specifier)
  THEN ~check_net_url(req[p].perms, req[p].specifier)
  ELSE req[p].specifier.scheme = "file" /\ ~check_read(req[p].perms,
                                                       req[p].specifier.path)

\* a call of one of the two entry points has returned a record
ReturnsRecord(p) ==
  /\ Done(p)
  /\ req[p].entry \in {"fetch_source_file", "fetch_cached_source_file"}
  /\ req[p].result.tag = "file"

\* the claim as stated: a call whose permissions refuse the specifier
\* returns no record for it
C28_NoCachedDecisionOriginal ==
  \A p \in Requests : ReturnsRecord(p) => ~DeniesSpecifier(p)

\* C28: a call whose permissions refuse the specifier returns a record
\* only without a permission check: the record the memory cache holds for
\* the specifier, put there by an earlier fetch or an earlier save, or, from
\* fetch_cached_source_file for a remote specifier, the record the cached
\* reader builds from the disk cache.  On every other path the denial stops
\* the call.
C28_NoCachedDecision ==
  \A p \in Requests :
    (ReturnsRecord(p) /\ DeniesSpecifier(p)) =>
      \/ /\ req[p].inner = NoResult
         /\ req[p].result.file = source_file_cache[req[p].specifier]
         /\ req[p].net_checks = 0 /\ req[p].read_checks = 0
      \/ /\ req[p].entry = "fetch_cached_source_file"
         /\ IsRemote(req[p].specifier)
         /\ req[p].inner = req[p].result
         /\ req[p].net_checks = 0

\* a call whose permissions refuse the specifier is handed the record an
\* earlier call had fetched
C28_Witness ==
  \E p \in Requests :
    /\ ReturnsRecord(p)
    /\ DeniesSpecifier(p)
    /\ req[p].entry = "fetch_source_file"
    /\ req[p].result.file = returned[req[p].specifier]

----------------------------------------------------------------------------
(* C29: bytes that cannot be decoded *)

\* the fetched bytes cannot be converted under the charset of their record
Undecodable(p) == ~to_str(req[p].inner.file.source_code).ok

\* the call aborted: the unwrap of the shebang step panicked
Aborted(p) == req[p].result = Panic

\* the claim as stated: whatever the fetched bytes are, fetch_source_file
\* neither fails nor aborts on them, and returns them in a record
C29_LazyDecodeOriginal ==
  \A p \in Requests : Fetched(p) => req[p].result.tag = "file"

\* C29: fetch_source_file aborts on fetched bytes exactly when they begin
\* with "#!" and cannot be converted under their charset, the one place
\* where it decodes; bytes that cannot be converted and do not begin with
\* "#!" are returned and stored as they are, and the failure is met only by
\* the caller that asks the returned document for text.
C29_LazyDecode ==
  \A p \in Requests :
    Fetched(p) =>
      /\ Aborted(p) <=> (BeginsWithShebang(FetchedBytes(p)) /\ Undecodable(p))
      /\ ~Aborted(p) => req[p].result.tag = "file"
      /\ (Undecodable(p) /\ ~BeginsWithShebang(FetchedBytes(p))) =>
           /\ req[p].result = req[p].inner
           /\ ~to_str(req[p].result.file.source_code).ok
           /\ source_file_cache[req[p].specifier] = req[p].inner.file

\* bytes that cannot be decoded were fetched and returned in a record
C29_Witness ==
  \E p \in Requests :
    /\ Fetched(p)
    /\ Undecodable(p)
    /\ req[p].result.tag = "file"
    /\ ~to_str(req[p].result.file.source_code).ok

----------------------------------------------------------------------------
(* The lock of the memory cache: two request contexts on one fetcher, each *)
(* followed statement by statement through fetch_source_file or            *)
(* save_source_file_in_cache, from one lock() or suspension to the next    *)

Contexts == {"c1", "c2"}

LockSpecifiers == {UA, UC}

Parked ==
  [pc |-> "idle", entry |-> "", specifier |-> NoUrl, redirect_limit |-> 0,
   after |-> "", result |-> NoResult]

\* the record a fetch of the specifier yields
FileAt(s) == [InjectedFile EXCEPT !.url = s]

\* what get_source_file may answer
Outcomes(s) == {Ok(FileAt(s)), Err(NetDenied(s))}

\* the context goes on with the result of get_source_file: the Ok arm leads
\* to source_file_cache.set, the Err arm returns
Matched(r, result) ==
  [r EXCEPT !.result = result,
            !.pc = IF result.tag = "file" THEN "set" ELSE "done"]

\* a faulty guard, one that stays alive after the method has returned
MutexKept(c) == c

\* the guard is a local of get and of set: it is dropped when they return
MutexDropped(c) == Unlocked

\* fetch_source_file is entered and reaches source_file_cache.get
EnterFetch(c, s) ==
  /\ req[c].pc = "idle"
  /\ req' = [req EXCEPT ![c] = [Parked EXCEPT !.pc = "get",
                                              !.entry = "fetch_source_file",
                                              !.specifier = s]]
  /\ UNCHANGED <<source_file_cache, http_cache, origin, config, returned,
                 calls, saves, restripped, mutex>>

\* save_source_file_in_cache is entered and reaches source_file_cache.set
EnterSave(c, s) ==
  /\ req[c].pc = "idle"
  /\ req' = [req EXCEPT ![c] =
               [Parked EXCEPT !.pc = "set",
                              !.entry = "save_source_file_in_cache",
                              !.specifier = s,
                              !.result = Ok(InjectedFile)]]
  /\ UNCHANGED <<source_file_cache, http_cache, origin, config, returned,
                 calls, saves, restripped, mutex>>

\* self.0.lock() in get or in set: it returns once no other guard is alive
Lock(c) ==
  /\ req[c].pc \in {"get", "set"}
  /\ mutex = Unlocked
  /\ mutex' = c
  /\ req' = [req EXCEPT ![c].pc = IF req[c].pc = "get" THEN "get_locked"
                                                        ELSE "set_locked"]
  /\ UNCHANGED <<source_file_cache, http_cache, origin, config, returned,
                 calls, saves, restripped>>

\* the body of get: the lookup, the clone, the return; a hit is returned
\* by fetch_source_file at once
Lookup(c) ==
  /\ req[c].pc = "get_locked"
  /\ mutex = c
  /\ LET found == SourceFileCacheGet(source_file_cache, req[c].specifier) IN
       req' = [req EXCEPT ![c] =
                 IF found # NoFile
                 THEN [req[c] EXCEPT !.pc = "done", !.result = Ok(found)]
                 ELSE [req[c] EXCEPT !.pc = "get_source_file"]]
  /\ mutex' = MutexDropped(c)
  /\ UNCHANGED <<source_file_cache, http_cache, origin, config, returned,
                 calls, saves, restripped>>

\* get_source_file runs up to its first suspension, or to its end when it
\* meets none (a local file, a cached read, an error)
GetSourceFile(c) ==
  /\ req[c].pc = "get_source_file"
  /\ \/ req' = [req EXCEPT ![c] = [req[c] EXCEPT !.pc = "fetch_once",
                                               !.redirect_limit = MaxLimit]]
     \/ \E result \in Outcomes(req[c].specifier) :
          req' = [req EXCEPT ![c] = Matched(req[c], result)]
  /\ UNCHANGED <<source_file_cache, http_cache, origin, config, returned,
                 calls, saves, restripped, mutex>>

\* the awaited fetch_once answers, with an error, NotModified, a redirect
\* or the code
FetchOnceAnswers(c) ==
  /\ req[c].pc = "fetch_once"
  /\ \/ \E result \in Outcomes(req[c].specifier) :
          req' = [req EXCEPT ![c] = Matched(req[c], result)]
     \/ /\ req[c].redirect_limit > 0
        /\ req' = [req EXCEPT ![c] =
                     [req[c] EXCEPT !.pc = "http_cache_set",
                                    !.after = "fetch_once",
                                    !.redirect_limit = @ - 1]]
     \/ req' = [req EXCEPT ![c] = [req[c] EXCEPT !.pc = "http_cache_set",
                                               !.after = "code"]]
  /\ UNCHANGED <<source_file_cache, http_cache, origin, config, returned,
                 calls, saves, restripped, mutex>>

\* dir.http_cache.set has written, or failed to: after a redirect the next
\* hop is fetched, after the code the record is built
HttpCacheSetReturns(c) ==
  /\ req[c].pc = "http_cache_set"
  /\ \/ req' = [req EXCEPT ![c] =
                  Matched(req[c], Err(NetDenied(req[c].specifier)))]
     \/ req' = [req EXCEPT ![c] =
                  IF req[c].after = "fetch_once"
                  THEN [req[c] EXCEPT !.pc = "fetch_once"]
                  ELSE Matched(req[c], Ok(FileAt(req[c].specifier)))]
  /\ UNCHANGED <<source_file_cache, http_cache, origin, config, returned,
                 calls, saves, restripped, mutex>>

\* the body of set: the insert, the return
Insert(c) ==
  /\ req[c].pc = "set_locked"
  /\ mutex = c
  /\ source_file_cache' =
       SourceFileCacheSet(source_file_cache, req[c].specifier,
                          req[c].result.file)
  /\ req' = [req EXCEPT ![c].pc = "done"]
  /\ mutex' = MutexDropped(c)
  /\ UNCHANGED <<http_cache, origin, config, returned, calls, saves,
                 restripped>>

InitLock ==
  /\ source_file_cache = [s \in AllSpecifiers |-> NoFile]
  /\ returned = [s \in AllSpecifiers |-> NoFile]
  /\ origin = Servers(Failing, Failing, Failing)
  /\ config = Config(TRUE, FALSE, FALSE, <<>>)
  /\ http_cache = Servers(Missing, Missing, Missing)
  /\ req = [c \in Contexts |-> Parked]
  /\ calls = 0
  /\ saves = 0
  /\ restripped = [s \in AllSpecifiers |-> NoResult]
  /\ mutex = Unlocked

NextLock ==
  \/ \E c \in Contexts, s \in LockSpecifiers : EnterFetch(c, s)
  \/ \E c \in Contexts, s \in LockSpecifiers : EnterSave(c, s)
  \/ \E c \in Contexts : Lock(c)
  \/ \E c \in Contexts : Lookup(c)
  \/ \E c \in Contexts : GetSourceFile(c)
  \/ \E c \in Contexts : FetchOnceAnswers(c)
  \/ \E c \in Contexts : HttpCacheSetReturns(c)
  \/ \E c \in Contexts : Insert(c)

\* get and set hold no suspension: a context that has the lock, or that
\* waits for a free one, runs on
SpecLock ==
  /\ InitLock
  /\ [][NextLock]_vars
  /\ \A c \in Contexts :
       WF_vars(Lock(c)) /\ WF_vars(Lookup(c)) /\ WF_vars(Insert(c))

----------------------------------------------------------------------------
(* C30: the lock discipline of the memory cache *)

Holds(c) == mutex = c

\* the context is suspended, or at the write of the disk cache
Suspended(c) == req[c].pc \in {"fetch_once", "http_cache_set"}

\* the context is in the body of get or of set
InCriticalSection(c) == req[c].pc \in {"get_locked", "set_locked"}

\* the context waits in lock()
Waits(c) == req[c].pc \in {"get", "set"}

\* C30: in every interleaving of two contexts on one fetcher, the lock of
\* the memory cache is held only inside the body of get or of set, never by
\* a context that is suspended in fetch_once or at the write of the disk
\* cache; the step a holder takes is the single lookup or the single
\* insert, and it frees the lock; so a held lock is always freed, and a
\* context that waits for the lock always gets it.
C30_LockDiscipline ==
  /\ [](\A c \in Contexts :
          /\ Holds(c) => InCriticalSection(c)
          /\ Suspended(c) => ~Holds(c))
  /\ [][\A c \in Contexts :
          (Holds(c) /\ req'[c] # req[c]) => mutex' = Unlocked]_vars
  /\ \A c \in Contexts : Holds(c) ~> (mutex = Unlocked)
  /\ \A c \in Contexts : Waits(c) ~> InCriticalSection(c)

\* one context is suspended in fetch_once while the other holds the lock
C30_Witness ==
  \E c, d \in Contexts :
    /\ req[c].pc = "fetch_once"
    /\ Holds(d)
    /\ req[d].pc = "set_locked"

----------------------------------------------------------------------------
(* C32: local files *)

\* a call of fetch_source_file for a file url that missed the memory cache
LocalFetch(p) ==
  /\ Done(p)
  /\ req[p].entry = "fetch_source_file"
  /\ req[p].specifier.scheme = "file"
  /\ req[p].inner # NoResult

\* the url names no host, so it has a path on the local disk
HasLocalPath(url) == url.host = ""

\* C32: for a file url that is not in the memory cache, whatever
\* use_disk_cache, no_remote and cached_only are, fetch_source_file never
\* reads or writes the HTTP cache, never asks check_net_url and never calls
\* fetch_once; a url with no local path fails with the URI error before any
\* permission check or read; otherwise check_read is asked once, its denial
\* is returned without a read, and after its consent the file is read once
\* and the record has the url handed in, the filesystem path as filename
\* and no types header.
C32_LocalFiles ==
  \A p \in Requests :
    LocalFetch(p) =>
      LET r == req[p]
          filepath == [ok |-> HasLocalPath(r.specifier),
                       path |-> r.specifier.path]
      IN /\ r.reads = 0 /\ r.writes = 0 /\ r.fetches = 0 /\ r.net_checks = 0
         /\ ~filepath.ok =>
              /\ r.result = Err(InvalidFilePath)
              /\ r.read_checks = 0 /\ r.file_reads = 0
         /\ (filepath.ok /\ ~check_read(r.perms, filepath.path)) =>
              /\ r.inner = Err(ReadDenied(r.specifier))
              /\ r.read_checks = 1 /\ r.file_reads = 0
         /\ (filepath.ok /\ check_read(r.perms, filepath.path)) =>
              /\ r.read_checks = 1 /\ r.file_reads = 1
              /\ fs_read(filepath.path).ok =>
                   /\ r.result.tag = "file"
                   /\ r.result.file.url = r.specifier
                   /\ r.result.file.filename = [dir |-> "fs",
                                                name |-> r.specifier]
                   /\ r.result.file.types_header = ""

\* a local file was fetched by a fetcher that is cached-only
C32_Witness ==
  \E p \in Requests :
    /\ LocalFetch(p)
    /\ config.cached_only
    /\ req[p].result.tag = "file"
    /\ req[p].file_reads = 1

----------------------------------------------------------------------------
(* C33: records put in by save_source_file_in_cache *)

\* the step starts a call of one of the two entry points that look the
\* specifier up in the memory cache, and the slot holds the saved record
FindsSaved(p) ==
  /\ \/ CallStarts(p, "fetch_source_file")
     \/ CallStarts(p, "fetch_cached_source_file")
  /\ source_file_cache[req'[p].specifier] = InjectedFile

\* the call has asked no permission, read no file and no cache entry,
\* written nothing and sent nothing
UntouchedWorld(r) ==
  /\ r.net_checks = 0 /\ r.read_checks = 0 /\ r.file_reads = 0
  /\ r.reads = 0 /\ r.writes = 0 /\ r.fetches = 0

\* C33: save_source_file_in_cache(s, r) changes the memory-cache slot of s
\* and nothing else; while the slot holds r, every fetch_source_file(s) and
\* fetch_cached_source_file(s) returns r as it was saved, its shebang line
\* and media type included, at once, without a permission query, a disk
\* read, an access to the HTTP cache or a fetch_once call.
C33_Injection ==
  [][/\ \A s \in AllSpecifiers :
          SaveStep(s) =>
            /\ source_file_cache' =
                 [source_file_cache EXCEPT ![s] = InjectedFile]
            /\ http_cache' = http_cache
            /\ returned' = returned
     /\ \A p \in Requests :
          FindsSaved(p) =>
            /\ req'[p].pc = "done"
            /\ req'[p].result = Ok(InjectedFile)
            /\ UntouchedWorld(req'[p])
            /\ http_cache' = http_cache
            /\ source_file_cache' = source_file_cache]_vars

\* a saved record that begins with a shebang line, under a specifier of an
\* unsupported scheme, was returned by fetch_cached_source_file as saved
C33_Witness ==
  \E p \in Requests :
    /\ Done(p)
    /\ req[p].entry = "fetch_cached_source_file"
    /\ req[p].specifier = UX
    /\ req[p].result = Ok(InjectedFile)
    /\ BeginsWithShebang(req[p].result.file.source_code.bytes)

----------------------------------------------------------------------------
(* C35: termination, and no retry *)

\* the call goes through fetch_remote_source
ThroughRemote(p) ==
  req[p].entry \in {"fetch_remote_source", "fetch_source_file"}

\* the answer p waits for is one of those the call goes on with
Answerable(p) == Awaited(p).tag \in {"err", "NotModified", "Redirect", "Code"}

\* C35: a call that entered fetch_remote_source with budget N has invoked
\* fetch_once at most N+1 times and at most once per hop; while it waits
\* for an answer its remaining budget is N less the hops followed, never
\* negative, and an answer can always be taken; an answer either ends the
\* call or leads to one more hop with the budget one less, so the call
\* ends, under every origin, a cyclic one included; a failed fetch_once ends
\* the call with its error and is not sent again.  A call of
\* fetch_cached_remote_source with budget N ends after at most N+1 reads of
\* the HTTP cache, over a cyclic chain of placeholders too.
C35_Termination ==
  /\ [](\A p \in Requests :
          /\ ThroughRemote(p) =>
               /\ req[p].fetches <= req[p].limit0 + 1
               /\ req[p].fetches <= req[p].net_hops + 1
          /\ req[p].pc = "await" =>
               /\ req[p].redirect_limit >= 0
               /\ req[p].redirect_limit = req[p].limit0 - req[p].net_hops
               /\ req[p].fetches = req[p].net_hops + 1
               /\ Answerable(p)
          /\ (Done(p) /\ req[p].entry = "fetch_cached_remote_source") =>
               req[p].reads <= req[p].limit0 + 1)
  /\ [][\A p \in Requests :
          /\ (req[p].pc = "await" /\ req'[p].pc = "await") =>
               /\ req'[p].redirect_limit = req[p].redirect_limit - 1
               /\ req'[p].fetches = req[p].fetches + 1
               /\ req'[p].net_hops = req[p].net_hops + 1
          /\ (req[p].pc = "await" /\ Awaited(p).tag = "err"
              /\ req'[p] # req[p]) =>
               /\ req'[p].pc = "done"
               /\ req'[p].fetches = req[p].fetches
               /\ req'[p].inner = Err(Awaited(p).err)]_vars

\* servers that redirect in a circle were asked once per hop of the budget
\* by a fetch_remote_source, which then gave up
C35_Witness ==
  \E p \in Requests :
    /\ Done(p)
    /\ req[p].entry = "fetch_remote_source"
    /\ req[p].limit0 = MaxLimit
    /\ req[p].fetches = MaxLimit + 1
    /\ req[p].net_hops = MaxLimit + 1
    /\ req[p].inner = Err(TooManyRedirects)
    /\ origin[UC].kind = "redirect"

----------------------------------------------------------------------------
(* C36: failures and the memory cache *)

\* the step ends a call of fetch_source_file without a record
FetchFails(p) ==
  /\ req[p].pc # "done"
  /\ req'[p].pc = "done"
  /\ req'[p].entry = "fetch_source_file"
  /\ req'[p].result.tag # "file"

\* C36: a step that ends a fetch_source_file call without a record, for
\* whatever reason, and a step that leaves the call waiting for fetch_once,
\* leave the memory cache as it was; so as long as no fetch_source_file(s)
\* has succeeded and nothing was saved, every fetch_source_file(s) misses
\* the memory cache and runs its fetch path.
C36_FailuresNotCached ==
  /\ [][\A p \in Requests :
          /\ FetchFails(p) =>
               /\ source_file_cache' = source_file_cache
               /\ returned' = returned
          /\ req'[p].pc = "await" => source_file_cache' = source_file_cache]_vars
  /\ [](\A p \in Requests :
          (/\ Done(p)
           /\ req[p].entry = "fetch_source_file"
           /\ req[p].result.tag # "file"
           /\ saves = MaxSaves) =>
             /\ req[p].inner # NoResult
             /\ source_file_cache[req[p].specifier] = NoFile)

\* the second fetch_source_file of a url whose server fails went to the
\* network as the first had to, and failed
C36_Witness ==
  \E p \in Requests :
    /\ Done(p)
    /\ calls = 0
    /\ saves = MaxSaves
    /\ req[p].entry = "fetch_source_file"
    /\ req[p].specifier = UC
    /\ origin[UC].kind = "error"
    /\ req[p].fetches = 1
    /\ req[p].result.tag = "err"
    /\ \A s \in AllSpecifiers : source_file_cache[s] = NoFile

----------------------------------------------------------------------------
(* C37: the HTTP cache after a failed fetch *)

\* a call that went through fetch_remote_source has ended without a record
FailedRemote(p) ==
  /\ Done(p)
  /\ RemoteCall(p)
  /\ req[p].inner.tag \in {"err", "panic"}

\* the step is p going on after a Redirect answer
RedirectStep(p) ==
  /\ req[p].pc = "await"
  /\ Awaited(p).tag = "Redirect"
  /\ req'[p] # req[p]

----------------------------------------------------------------------------
(* C38: the filename and the types header of remote records *)

\* the types header the cache entry of the url carries, "" when it has none
StoredTypesHeader(cache, url) ==
  LET entry == HttpCacheGet(cache, url) IN
    IF entry.state = "stored" /\ "x-typescript-types" \in DOMAIN entry.headers
    THEN entry.headers["x-typescript-types"] ELSE ""

\* C38: every record a remote path produces (a Code answer, the cached
\* reader, the reconstruction after NotModified) has as filename the cache
\* file of its own url, and as types header the x-typescript-types header of
\* the cache entry of that url, none when the entry has none; the types
\* header of a redirect on the way is not taken.  fetch_source_file returns
\* the record with both fields unchanged.
C38_Coherence ==
  \A p \in Requests :
    RemoteRecord(p)
    => LET file == req[p].inner.file IN
       /\ file.filename = [dir |-> "deps", name |-> clear_fragment(file.url)]
       /\ file.types_header = StoredTypesHeader(http_cache, file.url)
       /\ req[p].result.tag = "file"
            => /\ req[p].result.file.filename = file.filename
               /\ req[p].result.file.types_header = file.types_header

\* a record reached through a redirect that has a types header of its own
\* bears the types header of the final entry
C38_Witness ==
  \E p \in Requests :
    /\ RemoteRecord(p)
    /\ req[p].specifier = UA
    /\ req[p].inner.file.url = UC
    /\ StoredTypesHeader(http_cache, UA) = "r.d.ts"
    /\ req[p].inner.file.types_header = "m.d.ts"

----------------------------------------------------------------------------
(* C39: cached redirects whose location is a path *)

\* a direct call of the cached reader has returned
CachedRead(p) == Done(p) /\ req[p].entry = "fetch_cached_remote_source"

\* the cache holds what a network fetch from url left: the placeholder of
\* the redirect and the payload of the url the servers redirected to
Populated(url) ==
  /\ ServesRedirect(url)
  /\ HttpCacheGet(http_cache, url) = Entry(<<>>, origin[url].headers)
  /\ IsTerminal(http_cache, OriginHop(url, 1))

\* the claim as stated: a chain the network path has populated is read back
\* from the cache to the url the network path ended at
C39_PathRedirectReplayOriginal ==
  \A p \in Requests :
    (CachedRead(p) /\ req[p].limit0 >= 1 /\ Populated(req[p].specifier))
    => /\ req[p].result.tag = "file"
       /\ req[p].result.file.url = OriginHop(req[p].specifier, 1)

\* C39: at a placeholder whose location is a path the cached reader goes on
\* at the current url with its path replaced, its query and fragment kept.
\* From a url without query and fragment this is the url the network path
\* was redirected to, and a populated chain is read back to the same final
\* url.  From a url with a query it is another url than the one the
\* network path followed, and the populated chain is not found: the read
\* returns nothing.  A location that is neither a url nor a path fails the
\* read with the parse error after one cache read.
C39_PathRedirectReplay ==
  \A p \in Requests :
    CachedRead(p) =>
      LET r == req[p]
          u == r.specifier
          entry == HttpCacheGet(http_cache, u)
          to == entry.headers["location"]
          kept == Url(u.scheme, u.host, to.path, u.query, u.fragment)
      IN (r.limit0 >= 1 /\ StoredAt(http_cache, u)
          /\ "location" \in DOMAIN entry.headers) =>
           /\ to.kind = "path" =>
                /\ IsTerminal(http_cache, kept) =>
                     r.result.tag = "file" /\ r.result.file.url = kept
                /\ HttpCacheGet(http_cache, kept) = Missing =>
                     r.result = OkNone
           /\ (to.kind = "path" /\ Populated(u)) =>
                IF u.query = "" /\ u.fragment = ""
                THEN /\ r.result.tag = "file"
                     /\ r.result.file.url = OriginHop(u, 1)
                ELSE /\ kept # OriginHop(u, 1)
                     /\ r.result = OkNone
           /\ to.kind = "bad" =>
                r.result = Err(LocationParseError) /\ r.reads = 1

\* a chain fetched over the network from a url without a query was read
\* back from the cache to the url the servers had redirected to
C39_Witness ==
  \E p \in Requests :
    /\ CachedRead(p)
    /\ req[p].specifier = UB
    /\ Populated(UB)
    /\ req[p].result.tag = "file"
    /\ req[p].result.file.url = UC
    /\ req[p].cache_hops = 1

----------------------------------------------------------------------------
(* C40: where the blocklist is consulted *)

\* the step starts a fetch_cached_source_file of a remote url that is on
\* the blocklist and not in the memory cache
CachedEntryOfListed(p) ==
  /\ CallStarts(p, "fetch_cached_source_file")
  /\ IsRemote(req'[p].specifier)
  /\ source_file_cache[req'[p].specifier] = NoFile
  /\ Blocklisted(req'[p].specifier)

\* C40: the blocklist is asked about the url handed to fetch_remote_source
\* and not about the urls the cached reader passes through.  With
\* use_disk_cache, a permitted url that is not on the blocklist and whose
\* cached chain of one or more placeholders ends, within the budget, at a
\* final entry that is on the blocklist is served from the disk cache:
\* the record of the final entry, no fetch_once call, nothing written, one
\* permission check.  fetch_cached_source_file of a url on the blocklist
\* returns the record of its cached chain as well.
C40_BlocklistScope ==
  [][\A p \in Requests :
       /\ \A k \in 1..RedirectLimit :
            (/\ EntersRemote(p)
             /\ req'[p].use_disk_cache
             /\ ~Blocklisted(req'[p].module_url)
             /\ check_net_url(req'[p].perms, req'[p].module_url)
             /\ CachedWithinBudget(p, k)
             /\ Blocklisted(HopUrl(http_cache', req'[p].module_url, k)))
            => /\ ServedFromDisk(p, k)
               /\ req'[p].cache_hops = k
               /\ req'[p].net_checks = Before(p, "net_checks") + 1
       /\ \A k \in 0..RedirectLimit :
            (/\ CachedEntryOfListed(p)
             /\ IsTerminal(http_cache, HopUrl(http_cache, req'[p].specifier, k)))
            => /\ req'[p].pc = "done"
               /\ req'[p].result.tag = "file"
               /\ req'[p].result.file.url =
                    HopUrl(http_cache, req'[p].specifier, k)
               /\ req'[p].fetches = 0
               /\ req'[p].net_checks = 0
               /\ http_cache' = http_cache]_vars

\* a url that is not on the blocklist was served from the disk cache
\* through two placeholders, from a final entry that is on it
C40_Witness ==
  \E p \in Requests :
    /\ Done(p)
    /\ req[p].entry = "fetch_source_file"
    /\ req[p].specifier = UA
    /\ ~Blocklisted(UA)
    /\ req[p].inner.tag = "file"
    /\ req[p].inner.file.url = UC
    /\ Blocklisted(UC)
    /\ req[p].cache_hops = 2
    /\ req[p].fetches = 0

----------------------------------------------------------------------------
(* C34: what a NotModified answer returns *)

\* the step handles the NotModified answer of request p
NotModifiedStep(p) ==
  /\ req[p].pc = "await"
  /\ Awaited(p).tag = "NotModified"
  /\ req'[p] # req[p]

\* the cached chain from url reaches a final entry within the fresh budget
ChainEndsAtEntry(cache, url) ==
  \E k \in 0..RedirectLimit : IsTerminal(cache, HopUrl(cache, url, k))

\* the cached chain from url leads, within the fresh budget, to a url the
\* HTTP cache holds nothing for
ChainEndsAtNothing(cache, url) ==
  \E k \in 0..RedirectLimit :
    /\ HopUrl(cache, url, k) # NoUrl
    /\ HttpCacheGet(cache, HopUrl(cache, url, k)).state = "missing"

\* C34 as stated: whenever fetch_once answers NotModified for a url, the
\* cached chain from it ends at a final entry and fetch_remote_source
\* returns a record.
C34_NotModifiedRecordOriginal ==
  [][\A p \in Requests :
       NotModifiedStep(p)
       => /\ ChainEndsAtEntry(http_cache, req[p].module_url)
          /\ req'[p].inner.tag = "file"]_vars

\* C34: when fetch_once answers NotModified for a url, fetch_remote_source
\* returns a record exactly when the cached chain from the url ends at a
\* final entry within a budget of 10; when the chain leads to a url the
\* cache holds nothing for, as from a placeholder with an etag whose target
\* is not cached, the unwrap of the missing hit aborts; otherwise the cached
\* reader's error is returned.
C34_NotModifiedRecord ==
  [][\A p \in Requests :
       NotModifiedStep(p)
       => LET u == req[p].module_url IN
          /\ req'[p].pc = "done"
          /\ req'[p].inner.tag \in {"file", "panic", "err"}
          /\ req'[p].inner.tag = "file" <=> ChainEndsAtEntry(http_cache, u)
          /\ req'[p].inner.tag = "panic" <=> ChainEndsAtNothing(http_cache, u)
          /\ req'[p].inner.tag = "panic" => req'[p].result = Panic]_vars

\* a placeholder with an etag, its target not cached, was revalidated and
\* the call aborted
C34_Witness ==
  \E p \in Requests :
    /\ Done(p)
    /\ req[p].revalidated
    /\ req[p].inner = Panic
    /\ IsPlaceholder(http_cache, req[p].module_url)
    /\ HeaderOr(HttpCacheGet(http_cache, req[p].module_url).headers,
                "etag", "") # ""
    /\ ~ChainEndsAtEntry(http_cache, req[p].module_url)

----------------------------------------------------------------------------
(* Two callers on one fetcher: fetch_source_file futures of one instance,  *)
(* interleaved at their fetch_once awaits                                  *)

Pair == {"r1", "r2"}
PairSpecifiers == {UA, UB}

InitPair ==
  /\ source_file_cache = [s \in AllSpecifiers |-> NoFile]
  /\ returned = [s \in AllSpecifiers |-> NoFile]
  /\ origin \in {Servers(RedirectAToB, RedirectBToPath, CodeShebang),
                 Servers(RedirectAToB, RedirectBToPath, CodeTs),
                 Servers(RedirectAToB, RedirectBToPath, Failing)}
  /\ config \in {Config(TRUE, FALSE, FALSE, <<>>),
                 Config(FALSE, FALSE, FALSE, <<>>)}
  /\ http_cache = [u \in RemoteUrls |-> Missing]
  /\ req = [p \in Pair |-> Idle]
  /\ calls = MaxSeqCalls
  /\ saves = 0
  /\ restripped = [s \in AllSpecifiers |-> NoResult]
  /\ mutex = Unlocked

NextPair ==
  \/ \E p \in Pair, s \in PairSpecifiers :
        FetchSourceFile(p, s, NoUrl, AllowAll)
  \/ \E p \in Pair : FetchOnceFails(p)
  \/ \E p \in Pair : FetchOnceNotModified(p)
  \/ \E p \in Pair : FetchOnceRedirect(p)
  \/ \E p \in Pair : FetchOnceCode(p)
  \/ \E p \in Pair : Return(p)

SpecPair == InitPair /\ [][NextPair]_vars

----------------------------------------------------------------------------
(* C31: concurrent duplicates *)

\* both callers hold the outcome of a fetch_source_file of one specifier
Duplicates(p, q) ==
  /\ p # q
  /\ Done(p) /\ Done(q)
  /\ req[p].entry = "fetch_source_file"
  /\ req[q].entry = "fetch_source_file"
  /\ req[p].specifier = req[q].specifier

\* the step is the one in which the call of p completes
Completes(p) == req[p].pc # "done" /\ req'[p].pc = "done"

\* C31 as stated: of two fetch_source_file calls for one specifier on one
\* instance, the origin unchanged, when one returns a record the other
\* returns an equivalent record, in every interleaving.
C31_ConcurrentDuplicatesOriginal ==
  \A p, q \in Pair :
    (Duplicates(p, q) /\ req[p].result.tag = "file")
    => /\ req[q].result.tag = "file"
       /\ SameRecord(req[p].result.file, req[q].result.file)

\* C31: two fetch_source_file calls for one specifier on one instance may
\* both run the fetch path; those of them that return a record return
\* equivalent records (url, bytes, media type, types header), and a call
\* completing with a record leaves that record in the memory-cache slot of
\* the specifier, a call completing without one leaves the slot alone.  A
\* call is not certain to return a record when the other does: answered
\* NotModified against the placeholder the other has just written, it
\* aborts.
C31_ConcurrentDuplicates ==
  /\ [](\A p, q \in Pair :
          (/\ Duplicates(p, q)
           /\ req[p].result.tag = "file"
           /\ req[q].result.tag = "file")
          => SameRecord(req[p].result.file, req[q].result.file))
  /\ [][\A p \in Pair :
          Completes(p)
          => IF req'[p].result.tag = "file"
             THEN source_file_cache'[req'[p].specifier] = req'[p].result.file
             ELSE source_file_cache'[req'[p].specifier] =
                    source_file_cache[req'[p].specifier]]_vars

\* both callers went to the servers for the same specifier, through both
\* redirects, and hold equivalent records; the slot holds that record
C31_Witness ==
  \E p, q \in Pair :
    /\ Duplicates(p, q)
    /\ req[p].fetches = 3
    /\ req[q].fetches = 3
    /\ req[p].result.tag = "file"
    /\ req[q].result.tag = "file"
    /\ SameRecord(req[p].result.file, req[q].result.file)
    /\ source_file_cache[req[p].specifier] = req[q].result.file

====
